---------------------------- MODULE Spec2Model ----------------------------
(***************************************************************************)
(* cc-fs: an integrity protected, read-only file system over a tar file.   *)
(*                                                                         *)
(* The model follows the three parts of the program:                      *)
(*   hash.rs   Hasher: SHA-256 chain with saved intermediate states        *)
(*   tar.rs    Parser: one pass over the tar, building the Index           *)
(*   index.rs  Index: sort, child slices, hard links (process)             *)
(*   fs.rs     CcFs: lookup, getattr, readdir, readlink, open, read        *)
(*                                                                         *)
(* Scale.  Byte counts are scaled down so that whole archives fit in a     *)
(* state: the SHA-256 block (64 bytes in the source) is HASH_BLOCK bytes,  *)
(* the tar block (512) is TAR_BLOCK, the page (4096) is PAGE_SIZE and the  *)
(* range of a u32 (2^32) is U32.  The divisibility chain of the source,    *)
(* 64 | 512 | 4096 | 2^32, is kept.                                        *)
(*                                                                         *)
(* Strings are sequences of byte values (ASCII codes), so that ordering,   *)
(* slicing and concatenation are those of the source.                      *)
(*                                                                         *)
(* compress256 is modelled as a collision free chain: a State is the       *)
(* sequence of bytes absorbed since the initial value, so two states are   *)
(* equal exactly when the same bytes were absorbed in the same order.      *)
(***************************************************************************)
EXTENDS Integers, Sequences, FiniteSets, TLC

\* ------------------------------------------------------------- constants

\* hash.rs:65, one SHA-256 message block (64 in the source).
HASH_BLOCK == 2

\* tar.rs:238, one tar block (512 in the source).
TAR_BLOCK == 4

\* tar.rs:491 and fs.rs:372, one page (4096 in the source).
PAGE_SIZE == 8

\* tar.rs:165 and index.rs:97, the number of values of a u32 (2^32 in the
\* source).
U32 == 64

\* fs.rs:19
MAX_NAME_LENGTH == 255

\* The number of opens a run makes.
MaxOpens == 2

\* The largest offset and the largest size a read asks for.
MaxOffset == 9
MaxReadSize == 9

\* The largest number of entries a readdir reply buffer holds, and the
\* number of entries after which the caller of a directory stream gives up.
MaxCap == 3
MaxListing == 6

\* The longest buffer handed to a hasher on its own, the most bytes such
\* a hasher measures and the most states it saves.
MaxBuf == 4
MaxMeasured == 4
MaxSaves == 2

\* ASCII codes used by the source.
Ch == [slash |-> 47, zero |-> 48, seven |-> 55, nine |-> 57, dot |-> 46,
       space |-> 32, eq |-> 61, nl |-> 10,
       a |-> 97, b |-> 98, c |-> 99, d |-> 100, e |-> 101, f |-> 102,
       g |-> 103, h |-> 104, i |-> 105, k |-> 107, l |-> 108, m |-> 109,
       n |-> 110, p |-> 112, s |-> 115, t |-> 116, u |-> 117, z |-> 122]

\* Typeflag bytes of a tar header (tar.rs:241-265).
TF == [reg |-> 48, hard |-> 49, sym |-> 50, chr |-> 51, dir |-> 53,
       pax |-> 120, gnuL |-> 76, gnuK |-> 75, nul |-> 0]

\* ------------------------------------------------------------- helpers

Min(a, b) == IF a < b THEN a ELSE b

\* Round n up to a multiple of m.
RoundUp(n, m) == ((n + m - 1) \div m) * m

\* ceil(n / m)
CeilDiv(n, m) == (n + m - 1) \div m

Zeros(n) == [i \in 1..n |-> 0]

\* s[from..to) with 0-based bounds, as a Rust slice.
Slice(s, from, to) == SubSeq(s, from + 1, to)

\* Ordering of two integers: -1 (Less), 0 (Equal), 1 (Greater).
IntCmp(a, b) == IF a < b THEN -1 ELSE IF a > b THEN 1 ELSE 0

\* Ordering of two strings: byte-wise lexicographic (str::cmp).
StrCmp(a, b) ==
    LET n == Min(Len(a), Len(b))
        D == {i \in 1..n : a[i] # b[i]}
    IN IF D = {} THEN IntCmp(Len(a), Len(b))
       ELSE LET i == CHOOSE j \in D : \A k \in D : j <= k
            IN IntCmp(a[i], b[i])

EndsWithSlash(s) == Len(s) > 0 /\ s[Len(s)] = Ch.slash

StartsWithSlash(s) == Len(s) > 0 /\ s[1] = Ch.slash

\* str::rfind("/"): the 0-based position of the last '/', or -1.
RFindSlash(s) ==
    LET P == {i \in 1..Len(s) : s[i] = Ch.slash}
    IN IF P = {} THEN -1 ELSE (CHOOSE i \in P : \A k \in P : k <= i) - 1

\* parent.split("/").count() - 1: the number of '/' in the string.
SplitCountMinus1(s) == Cardinality({i \in 1..Len(s) : s[i] = Ch.slash})

\* ---------------------------------------------------------------- hash.rs

\* Hasher::new: no saved states, the initial chain value, nothing measured.
HasherNew == [states |-> <<>>, state |-> <<>>, len |-> 0, digest |-> <<>>]

\* A compress that absorbs a buffer of any length.
compress_any_length(state, buf) == [ok |-> TRUE, state |-> state \o buf]

\* Hasher::compress: absorbs buf, whose length must be a multiple of the
\* SHA-256 block; the new state, or an error.
compress(state, buf) ==
    IF Len(buf) % HASH_BLOCK # 0
    THEN [ok |-> FALSE, state |-> state]
    ELSE [ok |-> TRUE, state |-> state \o buf]

\* Hasher::save_state: pushes the current state; the position returned is
\* Len(h.states), the 0-based index of the pushed element.
save_state(h) == [h EXCEPT !.states = Append(@, h.state)]

\* Hasher::measure
measure(h, buf) ==
    LET r == compress(h.state, buf)
    IN IF r.ok
       THEN [ok |-> TRUE, h |-> [h EXCEPT !.state = r.state, !.len = @ + Len(buf)]]
       ELSE [ok |-> FALSE, h |-> h]

\* The one block Hasher::finalize appends: the 0x80 terminator first, the
\* big-endian bit count in the last 8 bytes (here the last byte of the scaled
\* block), zeros between.
FinalBlock(len) ==
    [i \in 1..HASH_BLOCK |->
        IF i = 1 THEN 128 ELSE IF i = HASH_BLOCK THEN len * 8 ELSE 0]

\* format!("{:08x}"...) of the eight words of a state: one hex string per
\* state, different states give different strings.
Hex(state) == <<"hex", state>>

\* Hasher::finalize
finalize(h) ==
    LET r == measure(h, FinalBlock(h.len))
    IN IF r.ok
       THEN [ok |-> TRUE, h |-> [r.h EXCEPT !.digest = Hex(r.h.state)]]
       ELSE [ok |-> FALSE, h |-> h]

\* A verify that takes the state saved at pos for the state after the chunk.
verify_same_position(h, pos, buf) ==
    IF pos + 2 > Len(h.states) THEN "panic"
    ELSE LET r == compress(h.states[pos + 1], buf)
         IN IF ~r.ok THEN "err"
            ELSE IF r.state = h.states[pos + 1] THEN "true" ELSE "false"

\* Hasher::verify with a 0-based position: "true", "false", "err" (compress
\* failed) or "panic" (a position outside the saved states).
verify(h, pos, buf) ==
    IF pos + 2 > Len(h.states) THEN "panic"
    ELSE LET r == compress(h.states[pos + 1], buf)
         IN IF ~r.ok THEN "err"
            ELSE IF r.state = h.states[pos + 2] THEN "true" ELSE "false"

\* --------------------------------------------------------------- index.rs

\* Option<Extra>: <<>> is None, <<e>> is Some(e).
ExtraDefault == [link |-> <<>>, uname |-> <<>>, gname |-> <<>>, xattrs |-> <<>>]

\* Inode::default()
InodeDefault ==
    [typeflag |-> "RegularFile", name |-> <<>>, parent |-> <<>>,
     size |-> 0, uid |-> 0, gid |-> 0, mode |-> 0, mtime |-> 0,
     extra |-> <<>>, num |-> 0, hash_index |-> 0, child_inode |-> 0,
     num_children |-> 0, offset |-> 0, depth |-> 0, links |-> 0,
     target_ino |-> 0]

\* The root node Parser::parse pushes twice.
RootInode ==
    [InodeDefault EXCEPT !.typeflag = "Directory", !.name = <<Ch.slash>>,
                         !.parent = <<>>, !.mode = 493, !.links = 2]

\* Index::new
IndexNew == [inodes |-> <<>>, hasher |-> HasherNew]

\* Index::cmp_inodes: depth, then parent length, then parent, then name.
cmp_inodes(a, b) ==
    IF a.depth # b.depth THEN IntCmp(a.depth, b.depth)
    ELSE IF Len(a.parent) # Len(b.parent) THEN IntCmp(Len(a.parent), Len(b.parent))
    ELSE IF StrCmp(a.parent, b.parent) # 0 THEN StrCmp(a.parent, b.parent)
    ELSE StrCmp(a.name, b.name)

\* Inode::path_eq
path_eq(inode, path0) ==
    LET path == IF EndsWithSlash(path0) /\ Len(path0) > 1
                THEN SubSeq(path0, 1, Len(path0) - 1) ELSE path0
    IN /\ Len(path) = Len(inode.name) + Len(inode.parent)
       /\ inode.name = Slice(path, Len(inode.parent), Len(path))
       /\ inode.parent = Slice(path, 0, Len(inode.parent))

\* Vec::sort_by(cmp_inodes), a stable sort: x goes after the elements that
\* are not greater than it.
InsertSorted(sorted, x) ==
    LET k == Cardinality({i \in 1..Len(sorted) : cmp_inodes(sorted[i], x) <= 0})
    IN SubSeq(sorted, 1, k) \o <<x>> \o SubSeq(sorted, k + 1, Len(sorted))

RECURSIVE SortFrom(_, _, _)
SortFrom(inodes, k, sorted) ==
    IF k > Len(inodes) THEN sorted
    ELSE SortFrom(inodes, k + 1, InsertSorted(sorted, inodes[k]))

\* An index left in the order of the archive.
StreamOrder(inodes) == inodes

SortInodes(inodes) == SortFrom(inodes, 1, <<>>)

\* A find that searches the whole sequence whatever the slice.
find_anywhere(inodes, path0, start_ino, end_ino) ==
    IF path0 = <<Ch.slash>> \/ Len(path0) = 0 THEN {1}
    ELSE LET path == IF EndsWithSlash(path0) THEN SubSeq(path0, 1, Len(path0) - 1)
                     ELSE path0
             p == RFindSlash(path)
             parent == Slice(path, 0, p + 1)
             probe == [InodeDefault EXCEPT !.name = Slice(path, p + 1, Len(path)),
                                           !.depth = SplitCountMinus1(parent),
                                           !.parent = parent]
         IN IF p < 0 THEN {}
            ELSE {k \in 0..(Len(inodes) - 1) : cmp_inodes(inodes[k + 1], probe) = 0}

\* Index::find on inodes[start_ino..end_ino): the inode numbers (0-based
\* positions) the binary search may return, none when it returns an error.
\* On a sorted slice binary_search_by returns a match when there is one, and
\* any one of them when there are several.
find(inodes, path0, start_ino, end_ino) ==
    IF path0 = <<Ch.slash>> \/ Len(path0) = 0 THEN {1}
    ELSE LET path == IF EndsWithSlash(path0) THEN SubSeq(path0, 1, Len(path0) - 1)
                     ELSE path0
             p == RFindSlash(path)
             parent == Slice(path, 0, p + 1)
             probe == [InodeDefault EXCEPT !.name = Slice(path, p + 1, Len(path)),
                                           !.depth = SplitCountMinus1(parent),
                                           !.parent = parent]
         IN IF p < 0 THEN {}
            ELSE {k \in start_ino..(end_ino - 1) : cmp_inodes(inodes[k + 1], probe) = 0}

\* What a call that does not return a value ends in: the loop never ends,
\* or an index is out of bounds (a panic).
NoReturn == 0 - 1
OutOfBounds == 0 - 2

\* Index::get_hard_link_target from inode number ino: the values the loop
\* may return; NoReturn when it comes back to a link it has already followed
\* (the loop never ends), OutOfBounds when ino is no index of inodes.
RECURSIVE HardLinkTargetFrom(_, _, _)
HardLinkTargetFrom(inodes, ino, seen) ==
    IF ino >= Len(inodes) THEN {OutOfBounds}
    ELSE LET n == inodes[ino + 1]
         IN IF n.extra # <<>> /\ n.typeflag = "HardLink"
            THEN IF ino \in seen THEN {NoReturn}
                 ELSE LET e == n.extra[1]
                          link == IF StartsWithSlash(e.link) THEN e.link
                                  ELSE <<Ch.slash>> \o e.link
                          F == find(inodes, link, 0, Len(inodes))
                      IN IF F = {} THEN {0}
                         ELSE UNION {HardLinkTargetFrom(inodes, q, seen \cup {ino}) : q \in F}
            ELSE {ino}

get_hard_link_target(inodes, ino) == HardLinkTargetFrom(inodes, ino, {})

\* A first loop that records the first child of a directory without
\* counting it.
RECURSIVE ChildLoopFirstUncounted(_, _, _)
ChildLoopFirstUncounted(inodes, cur_parent, i) ==
    IF i >= Len(inodes) THEN {[kind |-> "ok", inodes |-> inodes]}
    ELSE IF path_eq(inodes[cur_parent + 1], inodes[i + 1].parent)
    THEN ChildLoopFirstUncounted(
           [inodes EXCEPT ![cur_parent + 1].num_children = @ + 1],
           cur_parent, i + 1)
    ELSE LET F == find(inodes, inodes[i + 1].parent, 1, i)
         IN IF F = {} THEN {[kind |-> "err", inodes |-> inodes]}
            ELSE UNION {
                   IF inodes[q + 1].child_inode # 0
                   THEN {[kind |-> "panic", inodes |-> inodes]}
                   ELSE ChildLoopFirstUncounted(
                          [inodes EXCEPT ![q + 1].child_inode = i], q, i + 1)
                   : q \in F}

\* A first loop that counts a node whose parent is not found as a child of
\* the current parent.
RECURSIVE ChildLoopOrphansKept(_, _, _)
ChildLoopOrphansKept(inodes, cur_parent, i) ==
    IF i >= Len(inodes) THEN {[kind |-> "ok", inodes |-> inodes]}
    ELSE IF path_eq(inodes[cur_parent + 1], inodes[i + 1].parent)
    THEN ChildLoopOrphansKept(
           [inodes EXCEPT ![cur_parent + 1].num_children = @ + 1],
           cur_parent, i + 1)
    ELSE LET F == find(inodes, inodes[i + 1].parent, 1, i)
         IN IF F = {}
            THEN ChildLoopOrphansKept(
                   [inodes EXCEPT ![cur_parent + 1].num_children = @ + 1],
                   cur_parent, i + 1)
            ELSE UNION {
                   IF inodes[q + 1].child_inode # 0
                   THEN {[kind |-> "panic", inodes |-> inodes]}
                   ELSE ChildLoopOrphansKept(
                          [inodes EXCEPT ![q + 1].child_inode = i,
                                         ![q + 1].num_children = @ + 1],
                          q, i + 1)
                   : q \in F}

\* A first loop that passes over a node whose parent is not found.
RECURSIVE ChildLoopOrphansSkipped(_, _, _)
ChildLoopOrphansSkipped(inodes, cur_parent, i) ==
    IF i >= Len(inodes) THEN {[kind |-> "ok", inodes |-> inodes]}
    ELSE IF path_eq(inodes[cur_parent + 1], inodes[i + 1].parent)
    THEN ChildLoopOrphansSkipped(
           [inodes EXCEPT ![cur_parent + 1].num_children = @ + 1],
           cur_parent, i + 1)
    ELSE LET F == find(inodes, inodes[i + 1].parent, 1, i)
         IN IF F = {} THEN ChildLoopOrphansSkipped(inodes, cur_parent, i + 1)
            ELSE UNION {
                   IF inodes[q + 1].child_inode # 0
                   THEN {[kind |-> "panic", inodes |-> inodes]}
                   ELSE ChildLoopOrphansSkipped(
                          [inodes EXCEPT ![q + 1].child_inode = i,
                                         ![q + 1].num_children = @ + 1],
                          q, i + 1)
                   : q \in F}

\* The first loop of Index::process from i, with cur_parent: the outcomes
\* [kind, inodes], kind "ok", "err" (find failed) or "panic" (the assert).
RECURSIVE ChildLoop(_, _, _)
ChildLoop(inodes, cur_parent, i) ==
    IF i >= Len(inodes) THEN {[kind |-> "ok", inodes |-> inodes]}
    ELSE IF path_eq(inodes[cur_parent + 1], inodes[i + 1].parent)
    THEN ChildLoop([inodes EXCEPT ![cur_parent + 1].num_children = @ + 1],
                   cur_parent, i + 1)
    ELSE LET F == find(inodes, inodes[i + 1].parent, 1, i)
         IN IF F = {} THEN {[kind |-> "err", inodes |-> inodes]}
            ELSE UNION {
                   IF inodes[q + 1].child_inode # 0
                   THEN {[kind |-> "panic", inodes |-> inodes]}
                   ELSE ChildLoop([inodes EXCEPT ![q + 1].child_inode = i,
                                                 ![q + 1].num_children = @ + 1],
                                  q, i + 1)
                   : q \in F}

\* A second loop that keeps the target of a link in the link's hash_index.
RECURSIVE LinkLoopTargetInHashIndex(_, _)
LinkLoopTargetInHashIndex(inodes, i) ==
    IF i >= Len(inodes) THEN {[kind |-> "ok", inodes |-> inodes]}
    ELSE UNION {
           IF ino = NoReturn
           THEN {[kind |-> "hang", inodes |-> [inodes EXCEPT ![i + 1].links = 1]]}
           ELSE IF ino > 0 /\ ino # i
           THEN LinkLoopTargetInHashIndex(
                    [inodes EXCEPT ![i + 1].links = 1,
                                   ![ino + 1].links = @ + 1,
                                   ![i + 1].hash_index = ino], i + 1)
           ELSE LinkLoopTargetInHashIndex([inodes EXCEPT ![i + 1].links = 1], i + 1)
           : ino \in get_hard_link_target([inodes EXCEPT ![i + 1].links = 1], i)}

\* A second loop that adds to the link counts it finds.
RECURSIVE LinkLoopKeepCount(_, _)
LinkLoopKeepCount(inodes, i) ==
    IF i >= Len(inodes) THEN {[kind |-> "ok", inodes |-> inodes]}
    ELSE UNION {
           IF ino = NoReturn THEN {[kind |-> "hang", inodes |-> inodes]}
           ELSE IF ino > 0 /\ ino # i
           THEN LinkLoopKeepCount([inodes EXCEPT ![ino + 1].links = @ + 1,
                                                 ![i + 1].target_ino = ino], i + 1)
           ELSE LinkLoopKeepCount(inodes, i + 1)
           : ino \in get_hard_link_target(inodes, i)}

\* The second loop of Index::process from i: the outcomes [kind, inodes],
\* kind "ok" or "hang" (get_hard_link_target never returns).
RECURSIVE LinkLoop(_, _)
LinkLoop(inodes, i) ==
    IF i >= Len(inodes) THEN {[kind |-> "ok", inodes |-> inodes]}
    ELSE LET one == [inodes EXCEPT ![i + 1].links = 1]
         IN UNION {
              IF ino = NoReturn THEN {[kind |-> "hang", inodes |-> one]}
              ELSE IF ino > 0 /\ ino # i
              THEN LinkLoop([one EXCEPT ![ino + 1].links = @ + 1,
                                        ![i + 1].target_ino = ino], i + 1)
              ELSE LinkLoop(one, i + 1)
              : ino \in get_hard_link_target(one, i)}

\* Index::process: the outcomes [kind, inodes].
process(inodes0) ==
    LET sorted == SortInodes(inodes0)
        seeded == [sorted EXCEPT ![2].child_inode = 2]
    IN UNION {
         IF c.kind # "ok" THEN {c}
         ELSE LinkLoop([c.inodes EXCEPT ![2].links = 2], 2)
         : c \in ChildLoop(seeded, 1, 2)}

\* ----------------------------------------------------------------- tar.rs

\* ascii_octal_to_u64: digits '0'..'7' up to the first NUL or the end of the
\* field; any other byte is an error.
RECURSIVE OctalFrom(_, _, _)
OctalFrom(buf, i, n) ==
    IF i > Len(buf) THEN [ok |-> TRUE, n |-> n]
    ELSE LET ch == buf[i]
         IN IF ch >= Ch.zero /\ ch <= Ch.seven
            THEN OctalFrom(buf, i + 1, n * 8 + (ch - Ch.zero))
            ELSE IF ch = 0 THEN [ok |-> TRUE, n |-> n]
            ELSE [ok |-> FALSE, n |-> 0]

ascii_octal_to_u64(buf) == OctalFrom(buf, 1, 0)

\* ascii_decimal_to_u64: digits '0'..'9' up to the first NUL or the end; any
\* other byte ('.' included) is an error.
RECURSIVE DecimalFrom(_, _, _)
DecimalFrom(buf, i, n) ==
    IF i > Len(buf) THEN [ok |-> TRUE, n |-> n]
    ELSE LET ch == buf[i]
         IN IF ch >= Ch.zero /\ ch <= Ch.nine
            THEN DecimalFrom(buf, i + 1, n * 10 + (ch - Ch.zero))
            ELSE IF ch = 0 THEN [ok |-> TRUE, n |-> n]
            ELSE [ok |-> FALSE, n |-> 0]

ascii_decimal_to_u64(buf) == DecimalFrom(buf, 1, 0)

\* extend(dest, src) appends src up to its first NUL: the part appended.
Extend(src) ==
    LET Z == {i \in 1..Len(src) : src[i] = 0}
    IN IF Z = {} THEN src
       ELSE SubSeq(src, 1, (CHOOSE i \in Z : \A k \in Z : i <= k) - 1)

\* field[0] != 0 on a fixed width header field.
FieldSet(field) == Len(field) > 0 /\ field[1] # 0

\* Parser::split_path: <<parent, name>>.
split_path(path0) ==
    LET path == IF EndsWithSlash(path0) THEN SubSeq(path0, 1, Len(path0) - 1)
                ELSE path0
        p == RFindSlash(path)
        parent == IF p >= 0 THEN Slice(path, 0, p + 1) ELSE <<Ch.slash>>
        name == IF p >= 0 THEN Slice(path, p + 1, Len(path)) ELSE path
    IN IF ~StartsWithSlash(parent) THEN <<(<<Ch.slash>> \o parent), name>>
       ELSE <<parent, name>>

\* A tar header as the writer laid it out (PosixHeader), with the bytes that
\* follow it: data is the payload of an 'x', 'L' or 'K' record; the content
\* of any other record is size bytes that the archive image numbers by
\* position.
\* The number of content bytes a record occupies, before padding.
ContentLen(rec) ==
    LET o == ascii_octal_to_u64(rec.size) IN IF o.ok THEN o.n ELSE 0

\* The bytes a record occupies in the archive: its header block and its
\* content rounded up to whole blocks.
Span(rec) == TAR_BLOCK + RoundUp(ContentLen(rec), TAR_BLOCK)

\* The byte position of the header of record k (1-based) of the archive.
RECURSIVE HdrPos(_, _)
HdrPos(recs, k) == IF k <= 1 THEN 0 ELSE HdrPos(recs, k - 1) + Span(recs[k - 1])

\* A header block of zeros: the end-of-archive marker.
ZeroHeader ==
    [typeflag |-> TF.nul, name |-> <<>>, prefix |-> <<>>, mode |-> <<>>,
     uid |-> <<>>, gid |-> <<>>, size |-> <<>>, mtime |-> <<>>,
     linkname |-> <<>>, uname |-> <<>>, gname |-> <<>>, data |-> <<>>]

\* The bytes of one record placed at byte position base.  Header bytes and
\* file content bytes are non-zero and differ from position to position;
\* the padding after the content is zero, as a tar writer leaves it.
RecImage(rec, base) ==
    LET n == ContentLen(rec)
        hdr == IF rec = ZeroHeader THEN Zeros(TAR_BLOCK)
               ELSE [i \in 1..TAR_BLOCK |-> base + i]
        body == IF rec.typeflag \in {TF.pax, TF.gnuL, TF.gnuK} THEN rec.data
                ELSE [i \in 1..n |-> base + TAR_BLOCK + i]
    IN hdr \o body \o Zeros(RoundUp(n, TAR_BLOCK) - n)

\* The archive file: the records in order, then tar.trail stray bytes.
RECURSIVE RecsImage(_, _, _)
RecsImage(recs, k, base) ==
    IF k > Len(recs) THEN <<>>
    ELSE RecImage(recs[k], base) \o RecsImage(recs, k + 1, base + Span(recs[k]))

DiskOf(t) == RecsImage(t.recs, 1, 0) \o [i \in 1..t.trail |-> 255]

\* ------------------------------------------------------------ the state

VARIABLES
    tar,        \* the archive as written: [recs, trail]
    cli,        \* the arguments of the command that has run, <<>> before it
    disk,       \* the bytes of the archive file (changed only by Tamper)
    pc,         \* where the program is
    rd,         \* Parser.reader: the number of bytes consumed
    parser,     \* Parser: [offset, size, rsize, inode, extra]
    index,      \* Parser.index: [inodes, hasher]
    indexErr,   \* the error tar::index returned, <<>> when none
    indexFile,  \* the index file written: <<>> or <<index>>
    fs,         \* CcFs: <<>> before mount, <<[index, next_file_handle]>>
    reply,      \* the reply to the request being served, <<>> when idle
    listing     \* the kernel's directory stream: <<>> or <<[ino, got, cursor, done]>>

vars == <<tar, cli, disk, pc, rd, parser, index, indexErr, indexFile, fs, reply,
          listing>>

\* Parser::new
ParserNew ==
    [offset |-> 0, size |-> 0, rsize |-> 0,
     inode |-> InodeDefault, extra |-> ExtraDefault]

\* reader.read_exact(n bytes) at byte position pos of the file.
ReadExact(d, pos, n) ==
    IF pos + n <= Len(d)
    THEN [ok |-> TRUE, buf |-> Slice(d, pos, pos + n)]
    ELSE [ok |-> FALSE, buf |-> <<>>]

\* What a block that was not written as a header decodes to when the parser
\* reads it as one: typeflag 255 stands for a byte that is no typeflag.
GarbageHeader == [ZeroHeader EXCEPT !.typeflag = 255]

\* The PosixHeader the parser holds after reading the block at pos.
HeaderAt(t, d, pos) ==
    LET K == {k \in 1..Len(t.recs) : HdrPos(t.recs, k) = pos}
    IN IF K # {} THEN t.recs[CHOOSE k \in K : TRUE]
       ELSE IF Slice(d, pos, pos + TAR_BLOCK) = Zeros(TAR_BLOCK) THEN ZeroHeader
       ELSE GarbageHeader

\* The path parse_header gives the inode: the one a PAX or GNU record
\* staged, or prefix and name of the header split.
HeaderPath(p, header) ==
    IF Len(p.inode.name) = 0
    THEN split_path((IF FieldSet(header.prefix)
                     THEN Extend(header.prefix) \o <<Ch.slash>> ELSE <<>>)
                    \o Extend(header.name))
    ELSE <<p.inode.parent, p.inode.name>>

\* The Extra parse_header leaves staged: gname, uname and linkname of the
\* header where a PAX or GNU record has not set them.
HeaderExtra(p, header) ==
    [p.extra EXCEPT
       !.gname = IF FieldSet(header.gname) /\ @ = <<>> THEN header.gname ELSE @,
       !.uname = IF FieldSet(header.uname) /\ @ = <<>> THEN header.uname ELSE @,
       !.link = IF FieldSet(header.linkname) /\ @ = <<>>
                THEN Extend(header.linkname) ELSE @]

\* The test of parse_header for attaching the Extra to the inode.
HasExtra(extra) ==
    extra.link # <<>> \/ extra.uname # <<>> \/ extra.gname # <<>>
    \/ extra.xattrs # <<>>

\* The inode and the Extra of parse_header from the parsed fields.
HeaderInode(p, og, ou, om, omode, pn, extra) ==
    [ok |-> (p.inode.gid # 0 \/ og.ok) /\ (p.inode.uid # 0 \/ ou.ok)
               /\ (p.inode.mtime # 0 \/ om.ok) /\ omode.ok,
     inode |-> [p.inode EXCEPT
                  !.gid = IF @ = 0 THEN og.n ELSE @,
                  !.uid = IF @ = 0 THEN ou.n ELSE @,
                  !.mtime = IF @ = 0 THEN om.n ELSE @,
                  !.size = p.size % U32,
                  !.parent = pn[1], !.name = pn[2],
                  !.depth = SplitCountMinus1(pn[1]),
                  !.mode = omode.n,
                  !.extra = IF HasExtra(extra) THEN <<extra>> ELSE @],
     extra |-> IF HasExtra(extra) THEN ExtraDefault ELSE extra]

\* Parser::parse_header on the staged inode and extra: [ok, inode, extra].
parse_header(p, header) ==
    HeaderInode(p, ascii_octal_to_u64(header.gid), ascii_octal_to_u64(header.uid),
                ascii_octal_to_u64(header.mtime), ascii_octal_to_u64(header.mode),
                HeaderPath(p, header), HeaderExtra(p, header))

\* The typeflag match of Parser::parse_item.
FileTypeOf(typeflag) ==
    CASE typeflag = TF.reg -> "RegularFile"
      [] typeflag = TF.hard -> "HardLink"
      [] typeflag = TF.sym -> "SymLink"
      [] typeflag = TF.dir -> "Directory"
      [] OTHER -> "unsupported"

\* The first loop of parse_item: count whole pages, each read, measured and
\* followed by save_state.  [ok, h, rd]
RECURSIVE HashPages(_, _, _, _)
HashPages(h, d, pos, count) ==
    IF count = 0 THEN [ok |-> TRUE, h |-> h, rd |-> pos]
    ELSE LET r == ReadExact(d, pos, PAGE_SIZE)
             m == measure(h, r.buf)
         IN IF ~r.ok \/ ~m.ok THEN [ok |-> FALSE, h |-> h, rd |-> pos]
            ELSE HashPages(save_state(m.h), d, pos + PAGE_SIZE, count - 1)

\* An end of the content part that measures the remaining bytes and saves
\* no state after them.
HashRemainingUnsaved(full, d, remaining) ==
    LET r == ReadExact(d, full.rd, remaining)
    IN IF ~full.ok \/ remaining = 0 THEN full
       ELSE IF ~r.ok THEN [ok |-> FALSE, h |-> full.h, rd |-> full.rd]
       ELSE [ok |-> TRUE, h |-> measure(full.h, r.buf).h,
             rd |-> full.rd + remaining]

\* The end of the content part of parse_item, after the whole pages: the
\* remaining bytes rounded to the tar block, measured and followed by
\* save_state.
HashRemaining(full, d, remaining) ==
    LET r == ReadExact(d, full.rd, remaining)
    IN IF ~full.ok \/ remaining = 0 THEN full
       ELSE IF ~r.ok THEN [ok |-> FALSE, h |-> full.h, rd |-> full.rd]
       ELSE [ok |-> TRUE, h |-> save_state(measure(full.h, r.buf).h),
             rd |-> full.rd + remaining]

\* The content part of parse_item: the whole pages, then the rest.
HashContent(h, d, pos, rsize) ==
    HashRemaining(HashPages(h, d, pos, rsize \div PAGE_SIZE), d,
                  (((rsize % PAGE_SIZE) + TAR_BLOCK - 1) \div TAR_BLOCK) * TAR_BLOCK)

\* A parse_item that pushes a copy of the staged inode and leaves the
\* staged one as it is.
ItemParsedKeepingStaged(p, ix, header, pos, ph, ft, c) ==
    IF ~ph.ok \/ ft = "unsupported" \/ ~c.ok
    THEN [ok |-> FALSE, parser |-> p, index |-> ix, rd |-> pos]
    ELSE [ok |-> TRUE,
          parser |-> [p EXCEPT !.inode.name = ph.inode.name,
                               !.inode.parent = ph.inode.parent,
                               !.extra = ph.extra],
          index |-> [inodes |->
                       Append(ix.inodes,
                              [ph.inode EXCEPT
                                 !.typeflag = ft,
                                 !.hash_index = IF header.typeflag = TF.reg
                                                THEN Len(ix.hasher.states) % U32
                                                ELSE @,
                                 !.offset = IF header.typeflag = TF.reg
                                            THEN p.offset \div TAR_BLOCK ELSE @]),
                     hasher |-> c.h],
          rd |-> c.rd]

\* The result of parse_item from the parsed header ph, the file type ft
\* and the hashed content c.
ItemParsed(p, ix, header, pos, ph, ft, c) ==
    IF ~ph.ok \/ ft = "unsupported" \/ ~c.ok
    THEN [ok |-> FALSE, parser |-> p, index |-> ix, rd |-> pos]
    ELSE [ok |-> TRUE,
          parser |-> [p EXCEPT !.inode = InodeDefault, !.extra = ph.extra],
          index |-> [inodes |->
                       Append(ix.inodes,
                              [ph.inode EXCEPT
                                 !.typeflag = ft,
                                 !.hash_index = IF header.typeflag = TF.reg
                                                THEN Len(ix.hasher.states) % U32
                                                ELSE @,
                                 !.offset = IF header.typeflag = TF.reg
                                            THEN p.offset \div TAR_BLOCK ELSE @]),
                     hasher |-> c.h],
          rd |-> c.rd]

\* Parser::parse_item with the header read and measured, p.offset already
\* advanced past the header: [ok, parser, index, rd].
parse_item(p, ix, header, d, pos) ==
    ItemParsed(p, ix, header, pos, parse_header(p, header),
               FileTypeOf(header.typeflag),
               HashContent(IF header.typeflag = TF.reg
                           THEN save_state(ix.hasher) ELSE ix.hasher,
                           d, pos, p.rsize))

\* The closure skip_next of parse_pax: the position after the next ch at or
\* after p (after the end of buf when there is none); positions are 0-based.
SkipNext(buf, p, ch) ==
    LET H == {i \in p..(Len(buf) - 1) : buf[i + 1] = ch}
    IN (IF H = {} THEN IF p < Len(buf) THEN Len(buf) ELSE p
        ELSE CHOOSE i \in H : \A k \in H : i <= k) + 1

\* The field names parse_pax knows.
PaxField ==
    [path |-> <<Ch.p, Ch.a, Ch.t, Ch.h>>,
     gid |-> <<Ch.g, Ch.i, Ch.d>>,
     uid |-> <<Ch.u, Ch.i, Ch.d>>,
     mtime |-> <<Ch.m, Ch.t, Ch.i, Ch.m, Ch.e>>,
     gname |-> <<Ch.g, Ch.n, Ch.a, Ch.m, Ch.e>>,
     uname |-> <<Ch.u, Ch.n, Ch.a, Ch.m, Ch.e>>,
     linkpath |-> <<Ch.l, Ch.i, Ch.n, Ch.k, Ch.p, Ch.a, Ch.t, Ch.h>>]

\* The assignment (self.inode.parent, self.inode.name) = split_path(..).
SetPath(inode, pn) == [inode EXCEPT !.parent = pn[1], !.name = pn[2]]

\* One arm of the match on the field name in parse_pax, known the field
\* names: [ok, inode, extra].
PaxArm(known, field, value, inode, extra) ==
    LET oct == ascii_octal_to_u64(value)
        dec == ascii_decimal_to_u64(value)
    IN CASE field = known.path ->
              [ok |-> TRUE, extra |-> extra,
               inode |-> SetPath(inode, split_path(value))]
         [] field = known.gid ->
              [ok |-> oct.ok, extra |-> extra,
               inode |-> [inode EXCEPT !.gid = oct.n]]
         [] field = known.uid ->
              [ok |-> oct.ok, extra |-> extra,
               inode |-> [inode EXCEPT !.uid = oct.n]]
         [] field = known.mtime ->
              [ok |-> dec.ok, extra |-> extra,
               inode |-> [inode EXCEPT !.mtime = dec.n]]
         [] field = known.gname ->
              [ok |-> TRUE, inode |-> inode,
               extra |-> [extra EXCEPT !.gname = value]]
         [] field = known.uname ->
              [ok |-> TRUE, inode |-> inode,
               extra |-> [extra EXCEPT !.uname = value]]
         [] field = known.linkpath ->
              [ok |-> TRUE, inode |-> inode,
               extra |-> [extra EXCEPT !.link = value]]
         [] OTHER -> [ok |-> FALSE, inode |-> inode, extra |-> extra]

\* A match on the field name that skips the fields it does not know.
PaxApplySkipping(field, value, inode, extra) ==
    [PaxArm(PaxField, field, value, inode, extra) EXCEPT !.ok = TRUE]

\* The match on the field name in parse_pax: [ok, inode, extra].
PaxApply(field, value, inode, extra) ==
    PaxArm(PaxField, field, value, inode, extra)

\* The end of one iteration of the loop of parse_pax, a the outcome of the
\* match: the loop breaks after the last record. [ok, inode, extra]
RECURSIVE PaxLoop(_, _, _, _)
PaxNext(buf, after_nl, a) ==
    IF ~a.ok THEN a
    ELSE IF after_nl = Len(buf) \/ buf[after_nl + 1] = 0 THEN a
    ELSE PaxLoop(buf, after_nl, a.inode, a.extra)

\* One iteration of the loop of parse_pax on the record whose field name
\* starts at name_start, ends before after_eq - 1, and whose value ends
\* before after_nl - 1.
PaxEntry(buf, inode, extra, name_start, after_eq, after_nl) ==
    IF after_nl - 1 >= Len(buf)
    THEN [ok |-> FALSE, inode |-> inode, extra |-> extra]
    ELSE PaxNext(buf, after_nl,
                 PaxApply(Slice(buf, name_start, after_eq - 1),
                          Slice(buf, after_eq, after_nl - 1), inode, extra))

\* The record loop of parse_pax from position p of buf: [ok, inode, extra].
PaxLoop(buf, p, inode, extra) ==
    PaxEntry(buf, inode, extra,
             SkipNext(buf, p, Ch.space),
             SkipNext(buf, SkipNext(buf, p, Ch.space), Ch.eq),
             SkipNext(buf, SkipNext(buf, SkipNext(buf, p, Ch.space), Ch.eq),
                      Ch.nl))

\* The result of parse_pax from the payload read r, its measurement m and
\* the outcome l of the record loop.
PaxParsed(p, ix, pos, r, m, l) ==
    IF ~r.ok \/ ~m.ok \/ ~l.ok
    THEN [ok |-> FALSE, parser |-> p, index |-> ix, rd |-> pos]
    ELSE [ok |-> TRUE,
          parser |-> [p EXCEPT !.inode = l.inode, !.extra = l.extra],
          index |-> [ix EXCEPT !.hasher = m.h],
          rd |-> pos + p.rsize]

\* Parser::parse_pax: [ok, parser, index, rd]
parse_pax(p, ix, d, pos) ==
    PaxParsed(p, ix, pos, ReadExact(d, pos, p.rsize),
              measure(ix.hasher, ReadExact(d, pos, p.rsize).buf),
              PaxLoop(ReadExact(d, pos, p.rsize).buf, 0, p.inode, p.extra))

\* The result of parse_gnu from the payload read r and its measurement m.
GnuParsed(p, ix, pos, is_long_name, r, m) ==
    IF ~r.ok \/ ~m.ok
    THEN [ok |-> FALSE, parser |-> p, index |-> ix, rd |-> pos]
    ELSE [ok |-> TRUE,
          parser |-> IF is_long_name
                     THEN [p EXCEPT !.inode =
                                      SetPath(@, split_path(Slice(r.buf, 0, p.size)))]
                     ELSE [p EXCEPT !.extra.link = Slice(r.buf, 0, p.size)],
          index |-> [ix EXCEPT !.hasher = m.h],
          rd |-> pos + p.rsize]

\* Parser::parse_gnu: [ok, parser, index, rd]
parse_gnu(p, ix, d, pos, is_long_name) ==
    GnuParsed(p, ix, pos, is_long_name, ReadExact(d, pos, p.rsize),
              measure(ix.hasher, ReadExact(d, pos, p.rsize).buf))

\* ------------------------------------------------- the indexer (tar::index)

\* The read of the next header in the loop of Parser::parse.
HdrRead == ReadExact(disk, rd, TAR_BLOCK)

CurHeader == HeaderAt(tar, disk, rd)

\* The loop body up to the match on the typeflag: the header measured, the
\* offset advanced by one block, size and rsize parsed.
Staged(header, hdr) ==
    LET sz == ascii_octal_to_u64(header.size)
    IN [ok |-> sz.ok,
        parser |-> [parser EXCEPT !.offset = (@ + TAR_BLOCK) % U32,
                                  !.size = sz.n,
                                  !.rsize = RoundUp(sz.n, TAR_BLOCK)],
        index |-> [index EXCEPT !.hasher = measure(@, hdr.buf).h]]

\* The match on the typeflag, for the typeflags that run to the end of the
\* loop body: [ok, parser, index, rd].
Dispatch(header, st) ==
    CASE header.typeflag = TF.pax ->
           parse_pax(st.parser, st.index, disk, rd + TAR_BLOCK)
      [] header.typeflag \in {TF.gnuL, TF.gnuK} ->
           parse_gnu(st.parser, st.index, disk, rd + TAR_BLOCK,
                     header.typeflag = TF.gnuL)
      [] header.typeflag \in {TF.reg, TF.hard, TF.sym, TF.dir} ->
           parse_item(st.parser, st.index, header, disk, rd + TAR_BLOCK)
      [] OTHER -> [ok |-> FALSE, parser |-> st.parser,
                   index |-> st.index, rd |-> rd + TAR_BLOCK]

\* The additions to Parser.offset (a u32) that overflow in this iteration.
\* A build with overflow checks panics there; a release build wraps.
OffsetOverflows(header, st, item) ==
    \/ parser.offset + TAR_BLOCK >= U32
    \/ /\ header.typeflag # TF.nul
       /\ st.ok /\ item.ok
       /\ st.parser.offset + (st.parser.rsize % U32) >= U32

\* A parse that pushes the root node once.
ParseBeginOneRoot ==
    /\ pc = "new"
    /\ index' = [index EXCEPT !.inodes = <<RootInode>>]
    /\ pc' = "loop"
    /\ UNCHANGED <<tar, cli, disk, rd, parser, indexErr, indexFile, fs, reply, listing>>

\* Parser::parse, before the loop: the two root nodes.
ParseBegin ==
    /\ pc = "new"
    /\ index' = [index EXCEPT !.inodes = <<RootInode, RootInode>>]
    /\ pc' = "loop"
    /\ UNCHANGED <<tar, cli, disk, rd, parser, indexErr, indexFile, fs, reply, listing>>

\* A loop body that goes back to the header it has read when the typeflag
\* is NUL.
LoopBodyNulRewinds(header, st, item) ==
    \E build \in (IF OffsetOverflows(header, st, item)
                  THEN {"release", "checked"} ELSE {"release"}) :
        IF build = "checked"
        THEN /\ pc' = "index_panic"
             /\ UNCHANGED <<rd, parser, index, indexErr>>
        ELSE IF ~st.ok
        THEN /\ pc' = "index_failed"
             /\ indexErr' = <<[kind |-> "MalformedOctal"]>>
             /\ UNCHANGED <<rd, parser, index>>
        ELSE IF header.typeflag = TF.nul
        THEN \* End of tar marker: the same block is read again.
             /\ rd' = rd
             /\ parser' = st.parser
             /\ index' = st.index
             /\ UNCHANGED <<pc, indexErr>>
        ELSE IF item.ok
        THEN /\ rd' = item.rd
             /\ parser' = [item.parser EXCEPT
                             !.offset = (@ + (item.parser.rsize % U32)) % U32]
             /\ index' = item.index
             /\ UNCHANGED <<pc, indexErr>>
        ELSE /\ pc' = "index_failed"
             /\ indexErr' = <<[kind |-> "ParseError",
                               typeflag |-> header.typeflag]>>
             /\ UNCHANGED <<rd, parser, index>>

\* The rest of one iteration of the loop of Parser::parse: header the
\* header read, st the parser and index staged, item the outcome of the
\* match on the typeflag.
LoopBody(header, st, item) ==
    \E build \in (IF OffsetOverflows(header, st, item)
                  THEN {"release", "checked"} ELSE {"release"}) :
        IF build = "checked"
        THEN /\ pc' = "index_panic"
             /\ UNCHANGED <<rd, parser, index, indexErr>>
        ELSE IF ~st.ok
        THEN /\ pc' = "index_failed"
             /\ indexErr' = <<[kind |-> "MalformedOctal"]>>
             /\ UNCHANGED <<rd, parser, index>>
        ELSE IF header.typeflag = TF.nul
        THEN \* End of tar marker: continue.
             /\ rd' = rd + TAR_BLOCK
             /\ parser' = st.parser
             /\ index' = st.index
             /\ UNCHANGED <<pc, indexErr>>
        ELSE IF item.ok
        THEN /\ rd' = item.rd
             /\ parser' = [item.parser EXCEPT
                             !.offset = (@ + (item.parser.rsize % U32)) % U32]
             /\ index' = item.index
             /\ UNCHANGED <<pc, indexErr>>
        ELSE /\ pc' = "index_failed"
             /\ indexErr' = <<[kind |-> "ParseError",
                               typeflag |-> header.typeflag]>>
             /\ UNCHANGED <<rd, parser, index>>

\* The loop body from the staged state on.
LoopMatch(header, st) ==
    \E item \in {Dispatch(header, st)} : LoopBody(header, st, item)

\* One iteration of the loop of Parser::parse on a header that was read.
ParseRecord ==
    /\ pc = "loop"
    /\ HdrRead.ok
    /\ \E header \in {CurHeader} :
          \E st \in {Staged(header, HdrRead)} : LoopMatch(header, st)
    /\ UNCHANGED <<tar, cli, disk, indexFile, fs, reply, listing>>

\* The digests a caller may pass to tar::index for an index whose computed
\* digest is d: none, d itself, another one.
DigestArgs(d) == {<<>>, <<d>>, <<Hex(<<>>)>>}

\* A comparison that takes every supplied digest for the computed one.
DigestNeverDiffers(digest, computed) == FALSE

\* The guard of the match in tar::index: a digest is supplied and is not
\* the computed one.
DigestDiffers(digest, computed) == digest # <<>> /\ computed # digest[1]

\* The header read fails: the loop ends, the hash is finalized and parse
\* returns the index; tar::index compares the digest and writes the file.
ParseEof ==
    /\ pc = "loop"
    /\ ~HdrRead.ok
    /\ LET fin == finalize(index.hasher)
           ix == [index EXCEPT !.hasher = fin.h]
       IN /\ index' = ix
          /\ \E digest \in DigestArgs(ix.hasher.digest) :
                /\ cli' = <<[command |-> "index", digest |-> digest]>>
                /\ IF DigestDiffers(digest, ix.hasher.digest)
                   THEN /\ pc' = "index_failed"
                        /\ indexErr' = <<[kind |-> "DigestMismatch",
                                          computed |-> ix.hasher.digest,
                                          supplied |-> digest[1]]>>
                        /\ UNCHANGED indexFile
                   ELSE /\ pc' = "indexed"
                        /\ indexFile' = <<ix>>
                        /\ UNCHANGED indexErr
    /\ UNCHANGED <<tar, disk, rd, parser, fs, reply, listing>>

\* ------------------------------------------------------------------ fs.rs

\* CcFs::new: Index::from_file, then Index::process.  bincode writes and
\* reads back every field of Index, so the index loaded is the one written.
Mount ==
    /\ pc = "indexed"
    /\ indexFile # <<>>
    /\ cli' = <<[command |-> "mount"]>>
    /\ \E r \in process(indexFile[1].inodes) :
         IF r.kind = "ok"
         THEN /\ fs' = <<[index |-> [indexFile[1] EXCEPT !.inodes = r.inodes],
                          next_file_handle |-> 1]>>
              /\ pc' = "serving"
         ELSE /\ pc' = CASE r.kind = "err" -> "mount_failed"
                         [] r.kind = "panic" -> "mount_panic"
                         [] OTHER -> "mount_hang"
              /\ UNCHANGED fs
    /\ UNCHANGED <<tar, disk, rd, parser, index, indexErr, indexFile, reply, listing>>

Inodes == fs[1].index.inodes

\* The outcome of a request that ended the process before any reply.
NoReply(req) == <<[req |-> req, kind |-> "none"]>>

\* CcFs::to_file_type; "panic" for the typeflags it does not handle.
to_file_type(typeflag) ==
    CASE typeflag = "RegularFile" -> "RegularFile"
      [] typeflag = "Directory" -> "Directory"
      [] typeflag = "SymLink" -> "Symlink"
      [] typeflag = "HardLink" -> "RegularFile"
      [] OTHER -> "panic"

\* CcFs::inode_to_attr: the FileAttr, or [panic |-> TRUE] for a symlink
\* without Extra.
inode_to_attr(ino, inode) ==
    IF \/ inode.typeflag = "SymLink" /\ inode.extra = <<>>
       \/ to_file_type(inode.typeflag) = "panic"
    THEN [panic |-> TRUE]
    ELSE LET size == CASE inode.typeflag = "Directory" -> PAGE_SIZE
                       [] inode.typeflag = "SymLink" -> Len(inode.extra[1].link)
                       [] OTHER -> inode.size
         IN [panic |-> FALSE, ino |-> ino, size |-> size,
             blocks |-> size \div PAGE_SIZE, mtime |-> inode.mtime,
             kind |-> to_file_type(inode.typeflag), perm |-> inode.mode,
             nlink |-> inode.links, uid |-> inode.uid, gid |-> inode.gid]

\* A name of n bytes that is in no directory.
LongName(n) == [i \in 1..n |-> Ch.z]

\* The names a lookup may ask for: those of the index, one that is in no
\* directory, the longest name lookup accepts and one a byte longer.
LookupNames ==
    {Inodes[i].name : i \in 1..Len(Inodes)}
    \cup {LongName(2), LongName(MAX_NAME_LENGTH), LongName(MAX_NAME_LENGTH + 1)}

\* A length test that rejects the longest name too.
NameTooLongInclusive(name) == Len(name) >= MAX_NAME_LENGTH

\* The length test of CcFs::lookup.
NameTooLong(name) == Len(name) > MAX_NAME_LENGTH

\* CcFs::lookup
Lookup ==
    /\ pc = "serving" /\ reply = <<>> /\ listing = <<>>
    /\ \E parent \in 0..Len(Inodes), name \in LookupNames :
        LET req == [op |-> "lookup", parent |-> parent, name |-> name]
            inode == Inodes[parent + 1]
            child_start == inode.child_inode
            child_end == child_start + inode.num_children
            M == {i \in child_start..(child_end - 1) : Inodes[i + 1].name = name}
        IN IF NameTooLong(name)
           THEN reply' = <<[req |-> req, kind |-> "error", errno |-> "ENAMETOOLONG"]>>
                /\ UNCHANGED pc
           ELSE IF parent >= Len(Inodes) \/ M = {}
           THEN reply' = <<[req |-> req, kind |-> "error", errno |-> "ENOENT"]>>
                /\ UNCHANGED pc
           ELSE \E found \in M : \E resolved \in get_hard_link_target(Inodes, found) :
                  LET child_ino == IF resolved > 0 THEN resolved ELSE found
                      attr == inode_to_attr(child_ino, Inodes[child_ino + 1])
                  IN IF resolved = NoReturn
                     THEN pc' = "hung" /\ reply' = NoReply(req)
                     ELSE IF attr.panic
                     THEN pc' = "aborted" /\ reply' = NoReply(req)
                     ELSE reply' = <<[req |-> req, kind |-> "entry", attr |-> attr]>>
                          /\ UNCHANGED pc
    /\ UNCHANGED <<tar, cli, disk, rd, parser, index, indexErr, indexFile, fs, listing>>

\* CcFs::getattr
GetAttr ==
    /\ pc = "serving" /\ reply = <<>> /\ listing = <<>>
    /\ \E ino0 \in 0..Len(Inodes) : \E ino \in get_hard_link_target(Inodes, ino0) :
        LET req == [op |-> "getattr", ino |-> ino0]
            attr == inode_to_attr(ino, Inodes[ino + 1])
        IN IF ino = OutOfBounds THEN pc' = "aborted" /\ reply' = NoReply(req)
           ELSE IF ino = NoReturn THEN pc' = "hung" /\ reply' = NoReply(req)
           ELSE IF ino >= Len(Inodes)
           THEN reply' = <<[req |-> req, kind |-> "error", errno |-> "ENOENT"]>>
                /\ UNCHANGED pc
           ELSE IF attr.panic THEN pc' = "aborted" /\ reply' = NoReply(req)
           ELSE reply' = <<[req |-> req, kind |-> "attr", attr |-> attr]>>
                /\ UNCHANGED pc
    /\ UNCHANGED <<tar, cli, disk, rd, parser, index, indexErr, indexFile, fs, listing>>

\* A readlink that forgets the digest of the index it serves.
ReadLinkDroppingDigest ==
    /\ pc = "serving" /\ reply = <<>> /\ listing = <<>>
    /\ \E ino \in 0..Len(Inodes) :
        LET req == [op |-> "readlink", ino |-> ino]
        IN IF ino < Len(Inodes) /\ Inodes[ino + 1].typeflag = "SymLink"
              /\ Inodes[ino + 1].extra # <<>>
           THEN reply' = <<[req |-> req, kind |-> "data",
                            data |-> Inodes[ino + 1].extra[1].link]>>
           ELSE reply' = <<[req |-> req, kind |-> "error", errno |-> "ENOENT"]>>
    /\ fs' = <<[fs[1] EXCEPT !.index.hasher.digest = <<>>]>>
    /\ UNCHANGED <<tar, cli, disk, pc, rd, parser, index, indexErr, indexFile,
                   listing>>

\* CcFs::readlink
ReadLink ==
    /\ pc = "serving" /\ reply = <<>> /\ listing = <<>>
    /\ \E ino \in 0..Len(Inodes) :
        LET req == [op |-> "readlink", ino |-> ino]
        IN IF ino < Len(Inodes) /\ Inodes[ino + 1].typeflag = "SymLink"
              /\ Inodes[ino + 1].extra # <<>>
           THEN reply' = <<[req |-> req, kind |-> "data",
                            data |-> Inodes[ino + 1].extra[1].link]>>
           ELSE reply' = <<[req |-> req, kind |-> "error", errno |-> "ENOENT"]>>
    /\ UNCHANGED <<tar, cli, disk, pc, rd, parser, index, indexErr, indexFile, fs, listing>>

\* An open that uses up a handle for a failed request too.
OpenCountingFailures ==
    /\ pc = "serving" /\ reply = <<>> /\ listing = <<>>
    /\ fs[1].next_file_handle <= MaxOpens
    /\ \E ino \in 0..Len(Inodes) :
        LET req == [op |-> "open", ino |-> ino]
        IN /\ reply' = IF ino >= Len(Inodes)
                       THEN <<[req |-> req, kind |-> "error", errno |-> "ENOENT"]>>
                       ELSE <<[req |-> req, kind |-> "opened",
                               fh |-> fs[1].next_file_handle]>>
           /\ fs' = <<[fs[1] EXCEPT !.next_file_handle = @ + 1]>>
    /\ UNCHANGED <<tar, cli, disk, pc, rd, parser, index, indexErr, indexFile, listing>>

\* CcFs::open
Open ==
    /\ pc = "serving" /\ reply = <<>> /\ listing = <<>>
    /\ fs[1].next_file_handle <= MaxOpens
    /\ \E ino \in 0..Len(Inodes) :
        LET req == [op |-> "open", ino |-> ino]
        IN IF ino >= Len(Inodes)
           THEN /\ reply' = <<[req |-> req, kind |-> "error", errno |-> "ENOENT"]>>
                /\ UNCHANGED fs
           ELSE /\ reply' = <<[req |-> req, kind |-> "opened",
                               fh |-> fs[1].next_file_handle]>>
                /\ fs' = <<[fs[1] EXCEPT !.next_file_handle = @ + 1]>>
    /\ UNCHANGED <<tar, cli, disk, pc, rd, parser, index, indexErr, indexFile, listing>>

\* The bytes read_exact_at leaves in a buffer of n bytes for byte position
\* pos of the file: all of them, or on a short file the bytes there are,
\* the rest of the zeroed buffer untouched (the error is dropped).
ReadExactAt(d, pos, n) ==
    LET avail == IF pos >= Len(d) THEN 0 ELSE Min(n, Len(d) - pos)
    IN Slice(d, pos, pos + avail) \o Zeros(n - avail)

\* The verification loop of CcFs::read from byte pos of buf: "ok" or "panic".
RECURSIVE VerifyPages(_, _, _, _)
VerifyPages(h, buf, page_num, pos) ==
    IF pos >= Len(buf) THEN "ok"
    ELSE LET len == Min(Len(buf) - pos, PAGE_SIZE)
         IN IF verify(h, page_num, Slice(buf, pos, pos + len)) = "true"
            THEN VerifyPages(h, buf, page_num + 1, pos + PAGE_SIZE)
            ELSE "panic"

\* The computation of CcFs::read for a regular file inode.
ReadPlan(inode, offset, size0) ==
    LET size == Min(size0, inode.size)
        end == offset + size
        start == (offset \div PAGE_SIZE) * PAGE_SIZE
        bytes == end - start
        buf_size == ((bytes + TAR_BLOCK - 1) \div TAR_BLOCK) * TAR_BLOCK
        sum == inode.offset * TAR_BLOCK + (start % U32)
        tar_offset == sum % U32
        slice == ReadExactAt(disk, tar_offset, bytes)
        buf == slice \o Zeros(buf_size - bytes)
    IN [size |-> size, start |-> start, bytes |-> bytes, buf |-> buf,
        overflow |-> sum >= U32, tar_offset |-> tar_offset,
        data |-> Slice(slice, offset % PAGE_SIZE, bytes),
        page_num |-> (start % U32) \div PAGE_SIZE + inode.hash_index]

\* CcFs::read.  The data reply is sent before the pages are verified; a
\* failed verification aborts the process after it.
Read ==
    /\ pc = "serving" /\ reply = <<>> /\ listing = <<>>
    /\ \E ino \in 0..Len(Inodes) :
        IF ino >= Len(Inodes) \/ Inodes[ino + 1].typeflag # "RegularFile"
        THEN /\ reply' = <<[req |-> [op |-> "read", ino |-> ino],
                            kind |-> "error", errno |-> "ENOENT"]>>
             /\ UNCHANGED pc
        ELSE \E offset \in 0..MaxOffset, size \in 0..MaxReadSize :
              LET req == [op |-> "read", ino |-> ino, offset |-> offset,
                          size |-> size]
                  plan == ReadPlan(Inodes[ino + 1], offset, size)
              IN \E build \in (IF plan.overflow THEN {"release", "checked"}
                               ELSE {"release"}) :
                  IF build = "checked"
                  THEN pc' = "aborted" /\ reply' = NoReply(req)
                  ELSE /\ reply' = <<[req |-> req, kind |-> "data",
                                      data |-> plan.data]>>
                       /\ pc' = IF VerifyPages(fs[1].index.hasher, plan.buf,
                                               plan.page_num, 0) = "ok"
                                THEN "serving" ELSE "aborted"
    /\ UNCHANGED <<tar, cli, disk, rd, parser, index, indexErr, indexFile, fs, listing>>

\* The entries CcFs::readdir offers to the reply buffer, in order, for a
\* valid ino: <<"panic">> when the search for the parent fails.
DirEntry(ino, cursor, kind, name) ==
    [ino |-> ino, cursor |-> cursor, kind |-> kind, name |-> name]

Offered(ino, offset, p) ==
    LET inode == Inodes[ino + 1]
        dots == IF offset <= 2
                THEN <<DirEntry(ino, 2, "Directory", <<Ch.dot>>),
                       DirEntry(p, 3, "Directory", <<Ch.dot, Ch.dot>>)>>
                ELSE <<>>
        first == IF offset <= 2 THEN 0 ELSE offset - 2
        count == IF inode.num_children > first THEN inode.num_children - first ELSE 0
    IN dots \o [k \in 1..count |->
                 LET i == first + k - 1
                     child == Inodes[inode.child_inode + i + 1]
                 IN DirEntry(inode.child_inode + i, i + 3,
                             to_file_type(child.typeflag), child.name)]

\* CcFs::readdir as the kernel drives it: the first call of a stream has
\* offset 0, a later one the cursor of the last entry the buffer accepted.
\* The buffer holds cap entries; add refuses every entry after that, the
\* refusals for `.` and `..` are dropped and the loop over the children
\* stops at the first refusal.
ReadDir ==
    /\ pc = "serving" /\ reply = <<>>
    /\ \E ino \in (IF listing = <<>> THEN 0..Len(Inodes) ELSE {listing[1].ino}),
          cap \in 1..MaxCap :
        LET offset == IF listing = <<>> THEN 0 ELSE listing[1].cursor
            got == IF listing = <<>> THEN <<>> ELSE listing[1].got
            req == [op |-> "readdir", ino |-> ino, offset |-> offset, cap |-> cap]
            P == IF offset <= 2 THEN find(Inodes, Inodes[ino + 1].parent, 0, ino)
                 ELSE {0}
        IN IF ino >= Len(Inodes)
           THEN /\ reply' = <<[req |-> req, kind |-> "error", errno |-> "ENOENT"]>>
                /\ UNCHANGED <<pc, listing>>
           ELSE IF P = {}
           THEN pc' = "aborted" /\ reply' = NoReply(req) /\ UNCHANGED listing
           ELSE \E p \in P :
                  LET offered == Offered(ino, offset, p)
                      accepted == SubSeq(offered, 1, Min(cap, Len(offered)))
                  IN IF \E k \in 1..Len(offered) :
                          /\ k <= cap + 1 \/ (offset <= 2 /\ k <= 3)
                          /\ offered[k].kind = "panic"
                     THEN pc' = "aborted" /\ reply' = NoReply(req) /\ UNCHANGED listing
                     ELSE /\ reply' = <<[req |-> req, kind |-> "dir",
                                         entries |-> accepted]>>
                          /\ listing' =
                               <<[ino |-> ino, got |-> got \o accepted,
                                  cursor |-> IF accepted = <<>> THEN offset
                                             ELSE accepted[Len(accepted)].cursor,
                                  done |-> accepted = <<>>]>>
                          /\ UNCHANGED pc
    /\ UNCHANGED <<tar, cli, disk, rd, parser, index, indexErr, indexFile, fs>>

\* The reply has been handed to the kernel; the server takes the next
\* request.  A directory stream ends with the empty reply, or when the
\* caller has MaxListing entries and gives up.
Return ==
    /\ pc = "serving" /\ reply # <<>>
    /\ reply' = <<>>
    /\ listing' = IF listing # <<>>
                     /\ (listing[1].done \/ Len(listing[1].got) >= MaxListing)
                  THEN <<>> ELSE listing
    /\ UNCHANGED <<tar, cli, disk, pc, rd, parser, index, indexErr, indexFile, fs>>

\* The byte positions (1-based) of the archive file that hold the content
\* of a regular file or its padding: what the server reads.
ContentBytes(t) ==
    UNION {{HdrPos(t.recs, k) + TAR_BLOCK + i :
              i \in 1..RoundUp(ContentLen(t.recs[k]), TAR_BLOCK)} :
           k \in {j \in 1..Len(t.recs) : t.recs[j].typeflag = TF.reg}}

\* The archive file is changed behind the mounted file system: one content
\* byte is overwritten, or the file is cut at a block boundary.
Tamper ==
    /\ pc = "serving" /\ reply = <<>> /\ listing = <<>>
    /\ disk = DiskOf(tar)
    /\ \/ \E i \in ContentBytes(tar) : i <= Len(disk) /\ disk' = [disk EXCEPT ![i] = 254]
       \/ \E n \in 0..(Len(disk) - 1) :
            n % TAR_BLOCK = 0 /\ disk' = SubSeq(disk, 1, n)
    /\ UNCHANGED <<tar, cli, pc, rd, parser, index, indexErr, indexFile, fs, reply,
                   listing>>

\* ------------------------------------------------------------ the archives

\* A number as the octal digits a tar writer puts in a header field.
RECURSIVE Oct(_)
Oct(n) == IF n < 8 THEN <<Ch.zero + n>> ELSE Oct(n \div 8) \o <<Ch.zero + (n % 8)>>

\* A ustar header for an item: mode 0644, uid 1, gid 1, mtime 1.
Item(typeflag, name, size, linkname) ==
    [ZeroHeader EXCEPT !.typeflag = typeflag, !.name = name,
                       !.size = Oct(size), !.linkname = linkname,
                       !.mode = Oct(420), !.uid = Oct(1), !.gid = Oct(1),
                       !.mtime = Oct(1)]

FileRec(name, size) == Item(TF.reg, name, size, <<>>)
DirRec(name) == [Item(TF.dir, name, 0, <<>>) EXCEPT !.mode = Oct(493)]
HardRec(name, linkname) == Item(TF.hard, name, 0, linkname)
SymRec(name, linkname) == Item(TF.sym, name, 0, linkname)

\* An extension record ('x', 'L' or 'K') with its payload.
ExtRec(typeflag, data) ==
    [ZeroHeader EXCEPT !.typeflag = typeflag, !.size = Oct(Len(data)),
                       !.data = data]

\* One record of a PAX payload: "<len> <field>=<value>\n".
PaxRecord(field, value) ==
    <<Ch.nine, Ch.space>> \o field \o <<Ch.eq>> \o value \o <<Ch.nl>>

\* The two zero blocks that end an archive.
End == <<ZeroHeader, ZeroHeader>>

Tar(recs, trail) == [recs |-> recs, trail |-> trail]

PathA == <<Ch.a>>
PathB == <<Ch.b>>
PathAB == <<Ch.a, Ch.slash, Ch.b>>
PathAC == <<Ch.a, Ch.slash, Ch.c>>
PathADir == <<Ch.a, Ch.slash>>
PathDDir == <<Ch.d, Ch.slash>>
PathDE == <<Ch.d, Ch.slash, Ch.e>>
PathF == <<Ch.f>>
PathG == <<Ch.g>>
PathH == <<Ch.h>>
PathS == <<Ch.s>>

\* Archives with directories, links and extension records.
TreeTars ==
    { Tar(<<DirRec(PathADir), FileRec(PathAB, 3)>> \o End, 0),
      Tar(<<DirRec(PathADir), FileRec(PathAB, 3), FileRec(PathAC, 0), DirRec(PathDDir),
            FileRec(PathDE, 5)>> \o End, 0),
      Tar(<<FileRec(PathF, 3), HardRec(PathH, PathF)>> \o End, 0),
      Tar(<<HardRec(PathA, PathB), FileRec(PathB, 3)>> \o End, 0),
      Tar(<<FileRec(PathF, 3), HardRec(PathG, PathF), HardRec(PathH, PathG)>> \o End, 0),
      Tar(<<HardRec(PathH, PathF)>> \o End, 0),
      Tar(<<HardRec(PathH, PathH)>> \o End, 0),
      Tar(<<FileRec(PathF, 3), SymRec(PathS, PathF)>> \o End, 0),
      Tar(<<SymRec(PathS, <<>>)>> \o End, 0),
      Tar(<<SymRec(PathS, PathF), HardRec(PathH, PathS)>> \o End, 0),
      Tar(<<SymRec(PathS, <<>>), HardRec(PathH, PathS)>> \o End, 0),
      Tar(<<FileRec(PathAB, 3)>> \o End, 0),
      Tar(<<FileRec(PathF, 3), FileRec(PathF, 5)>> \o End, 0),
      Tar(<<DirRec(PathADir), DirRec(PathADir), FileRec(PathAB, 3)>> \o End, 0),
      Tar(<<FileRec(PathF, 3), ZeroHeader, FileRec(PathG, 3)>> \o End, 0),
      Tar(<<ExtRec(TF.pax, PaxRecord(PaxField.path, PathG)), FileRec(PathF, 3)>> \o End, 0),
      Tar(<<ExtRec(TF.pax, PaxRecord(PaxField.uid, <<Ch.zero>>)),
            FileRec(PathF, 3)>> \o End, 0),
      Tar(<<ExtRec(TF.pax, PaxRecord(<<Ch.s, Ch.i, Ch.z, Ch.e>>, <<Ch.zero>>)),
            FileRec(PathF, 3)>> \o End, 0),
      Tar(<<ExtRec(TF.gnuL, PathG), FileRec(PathF, 3)>> \o End, 0),
      Tar(<<ExtRec(TF.gnuK, PathF), SymRec(PathS, <<>>)>> \o End, 0),
      Tar(<<ExtRec(TF.pax, PaxRecord(PaxField.linkpath, PathF)), ExtRec(TF.gnuL, PathG),
            SymRec(PathS, <<>>), SymRec(PathH, <<>>)>> \o End, 0),
      Tar(<<[SymRec(PathS, <<>>) EXCEPT !.uname = <<Ch.u>>]>> \o End, 0),
      Tar(<<Item(TF.chr, PathF, 0, <<>>)>> \o End, 0),
      Tar(<<[FileRec(PathF, 3) EXCEPT !.size = <<Ch.nine>>]>> \o End, 0),
      Tar(<<>>, 0),
      Tar(End, 0) }

\* Archives of regular files of the sizes that matter to paging: empty, less
\* than a block, a page, a page and a partial block, a page and more than a
\* block; with and without the end blocks; with a stray byte after the last block; a file followed by
\* another.
FileTars ==
    { Tar(<<FileRec(PathF, n)>> \o End, 0) : n \in {0, 3, 8, 10, 13} }
    \cup { Tar(<<FileRec(PathF, 13)>>, 0),
           Tar(<<FileRec(PathF, 3)>> \o End, 1),
           Tar(<<FileRec(PathF, 5), FileRec(PathG, 3)>> \o End, 0) }

\* Archives longer than a 32-bit count of bytes: one with a file that
\* starts after byte U32, one with a file that starts before it and ends
\* after it, one with a file of so many pages that the file after it starts
\* after U32 snapshots.
LongTars ==
    { Tar(<<FileRec(PathF, U32 - 2 * TAR_BLOCK), FileRec(PathG, 3)>> \o End, 0),
      Tar(<<FileRec(PathF, U32 - 3 * TAR_BLOCK), FileRec(PathG, 13)>> \o End, 0),
      Tar(<<FileRec(PathF, (U32 - 1) * PAGE_SIZE), FileRec(PathG, 3)>> \o End, 0) }

\* --------------------------------------------------------- the program

\* The state after construction, for an archive of the family.
InitOn(family) ==
    /\ tar \in family
    /\ cli = <<>>
    /\ disk = DiskOf(tar)
    /\ pc = "new"
    /\ rd = 0
    /\ parser = ParserNew
    /\ index = IndexNew
    /\ indexErr = <<>>
    /\ indexFile = <<>>
    /\ fs = <<>>
    /\ reply = <<>>
    /\ listing = <<>>

Init == InitOn(TreeTars)

InitFiles == InitOn(FileTars)

InitLong == InitOn(LongTars)

\* A hasher on its own, as Hasher::new returns it: no archive, no index
\* file, no file system.
InitHash ==
    /\ tar = Tar(<<>>, 0)
    /\ cli = <<>>
    /\ disk = <<>>
    /\ pc = "hashing"
    /\ rd = 0
    /\ parser = ParserNew
    /\ index = IndexNew
    /\ indexErr = <<>>
    /\ indexFile = <<>>
    /\ fs = <<>>
    /\ reply = <<>>
    /\ listing = <<>>

\* The buffers a caller hands to measure: every byte sequence of at most
\* MaxBuf bytes over two byte values.
Buffers == UNION {[1..n -> {0, 1}] : n \in 0..MaxBuf}

\* A call of Hasher::measure on the hasher; reply records the call and its
\* result.
Measure ==
    /\ pc = "hashing"
    /\ \E buf \in Buffers :
         /\ index.hasher.len + Len(buf) <= MaxMeasured
         /\ index' = [index EXCEPT !.hasher = measure(index.hasher, buf).h]
         /\ reply' = <<[req |-> [op |-> "measure", buf |-> buf],
                         kind |-> IF measure(index.hasher, buf).ok
                                  THEN "ok" ELSE "error"]>>
    /\ UNCHANGED <<tar, cli, disk, pc, rd, parser, indexErr, indexFile, fs, listing>>

\* A call of Hasher::save_state on the hasher; reply records the position
\* it returns.
SaveState ==
    /\ pc = "hashing"
    /\ Len(index.hasher.states) < MaxSaves
    /\ index' = [index EXCEPT !.hasher = save_state(index.hasher)]
    /\ reply' = <<[req |-> [op |-> "save_state"], kind |-> "ok",
                    pos |-> Len(index.hasher.states)]>>
    /\ UNCHANGED <<tar, cli, disk, pc, rd, parser, indexErr, indexFile, fs, listing>>

\* The indexer, the mount and the requests of a session.
Next ==
    \/ ParseBegin
    \/ ParseRecord
    \/ ParseEof
    \/ Mount
    \/ Lookup
    \/ GetAttr
    \/ ReadDir
    \/ ReadLink
    \/ Open
    \/ Read
    \/ Return

\* The same with the archive file open to tampering.
NextFiles ==
    \/ Next
    \/ Tamper

Spec == Init /\ [][Next]_vars

SpecFiles == InitFiles /\ [][NextFiles]_vars

SpecLong == InitLong /\ [][Next]_vars

\* The session with the indexer running on: Parser::parse is sequential
\* code, so an iteration that can be taken is taken.
SpecLive ==
    Spec /\ WF_vars(ParseBegin) /\ WF_vars(ParseRecord) /\ WF_vars(ParseEof)

\* The calls on a hasher on its own.
NextHash == Measure \/ SaveState

SpecHash == InitHash /\ [][NextHash]_vars

\* ------------------------------------------------------------ the claims

\* The file system is mounted: process has returned Ok.
Mounted == fs # <<>>

\* The archive as it was indexed.
Archive == DiskOf(tar)

\* The positions in a sequence of the elements that satisfy Test.
Positions(seq, Test(_)) ==
    LET RECURSIVE Collect(_)
        Collect(k) == IF k > Len(seq) THEN <<>>
                      ELSE (IF Test(seq[k]) THEN <<k>> ELSE <<>>) \o Collect(k + 1)
    IN Collect(1)

IsRegRec(rec) == rec.typeflag = TF.reg
IsRegInode(inode) == inode.typeflag = "RegularFile"

\* The regular files of the archive in stream order, and the regular file
\* inodes in the order the indexer appended them: the n-th of the second
\* was made from the n-th of the first.
RegRecs == Positions(tar.recs, IsRegRec)
RegInodes == Positions(index.inodes, IsRegInode)

\* The byte position in the archive of the first content byte of record k.
ContentStart(k) == HdrPos(tar.recs, k) + TAR_BLOCK

\* C1: for every regular file F of the index and every page number p with
\* 0 <= p <= ceil(F.size / PAGE_SIZE), the snapshot at F.hash_index + p is
\* the chain state after exactly the archive bytes that precede byte
\* F.offset * TAR_BLOCK + min(PAGE_SIZE * p, padded content length of F), and
\* the snapshot position and byte offset Read computes for page p are these.
C1_SnapshotPlacement ==
    \A n \in 1..Len(index.inodes) :
      LET file == index.inodes[n]
          pages == CeilDiv(file.size, PAGE_SIZE)
      IN file.typeflag = "RegularFile" =>
           \A p \in 0..pages :
             LET at == file.offset * TAR_BLOCK
                       + Min(PAGE_SIZE * p, RoundUp(file.size, TAR_BLOCK))
                 plan == ReadPlan(file, PAGE_SIZE * p, 1)
             IN /\ file.hash_index + p < Len(index.hasher.states)
                /\ index.hasher.states[file.hash_index + p + 1]
                     = SubSeq(Archive, 1, at)
                /\ p < pages =>
                     /\ plan.page_num = file.hash_index + p
                     /\ plan.tar_offset = file.offset * TAR_BLOCK + PAGE_SIZE * p

\* Page i of the regular file of record k, size bytes long: the archive
\* bytes of the page, the last page up to the end of the padded content.
PageOf(k, size, i) ==
    Slice(Archive, ContentStart(k) + i * PAGE_SIZE,
          ContentStart(k) + Min((i + 1) * PAGE_SIZE, RoundUp(size, TAR_BLOCK)))

\* C2: for every regular file F with K = ceil(F.size / PAGE_SIZE) pages,
\* verify(F.hash_index + i, page_i) is true for every i in [0, K) when
\* page_i is the archive content of page i, and false when any single byte
\* of page_i has been changed.
C2_VerifyDetects ==
    \A j \in 1..Len(RegInodes) :
      LET file == index.inodes[RegInodes[j]]
      IN \A i \in 0..(CeilDiv(file.size, PAGE_SIZE) - 1) :
           LET page == PageOf(RegRecs[j], file.size, i)
           IN /\ verify(index.hasher, file.hash_index + i, page) = "true"
              /\ \A b \in 1..Len(page) :
                   verify(index.hasher, file.hash_index + i,
                          [page EXCEPT ![b] = 254]) = "false"

\* A file of two pages, the second partial, has been indexed.
C2_Witness ==
    /\ pc = "indexed"
    /\ \E j \in 1..Len(RegInodes) :
         /\ index.inodes[RegInodes[j]].size > PAGE_SIZE
         /\ index.inodes[RegInodes[j]].size % PAGE_SIZE # 0

\* The request a reply answers.
IsReplyTo(op) == reply # <<>> /\ reply[1].req.op = op

\* C3: an integrity failure during Read is fatal before anything is
\* returned: when the archive has been tampered with or cut short and a page
\* of a Read fails verification, the process aborts and no data reply has
\* been sent for the request.
C3_NoDataOnIntegrityFailure ==
    ~(/\ pc = "aborted"
      /\ disk # Archive
      /\ IsReplyTo("read")
      /\ reply[1].kind = "data")

\* SHA-256 of a byte string: the string, the 0x80 terminator, zeros up to
\* the length field of the last block, the bit count.
Sha256(T) ==
    Hex(T \o <<128>>
          \o Zeros((HASH_BLOCK - ((Len(T) + 2) % HASH_BLOCK)) % HASH_BLOCK)
          \o <<Len(T) * 8>>)

\* C4: for every archive T the indexer accepts, the digest stored in the
\* index is SHA-256(T).
C4_DigestIsSha256 ==
    indexFile # <<>> => indexFile[1].hasher.digest = Sha256(Archive)

C6_ReadClipsToFileEnd ==
    (IsReplyTo("read") /\ reply[1].kind = "data") =>
      LET r == reply[1].req
          inode == Inodes[r.ino + 1]
      IN Len(reply[1].data)
           <= (IF inode.size > r.offset THEN inode.size - r.offset ELSE 0)

\* The names a run of ReadDir calls on directory ino is to deliver: `.`,
\* `..`, then the direct children in index order.
Listed(ino) ==
    LET dir == Inodes[ino + 1]
    IN <<<<Ch.dot>>, <<Ch.dot, Ch.dot>>>>
       \o [k \in 1..dir.num_children |-> Inodes[dir.child_inode + k].name]

\* C7: for any directory and any sequence of ReadDir calls, each reply cut
\* off at an arbitrary buffer-full point and the next call resumed from the
\* cursor of the last accepted entry, the accepted entries are `.`, `..`,
\* then every direct child exactly once in index order: at every point a
\* prefix of that list, and all of it when the stream has ended.
C7_ReadDirExactlyOnce ==
    (listing # <<>> /\ listing[1].ino >= 1
       /\ Inodes[listing[1].ino + 1].typeflag = "Directory") =>
      LET got == [k \in 1..Len(listing[1].got) |-> listing[1].got[k].name]
          all == Listed(listing[1].ino)
      IN /\ Len(got) <= Len(all)
         /\ got = SubSeq(all, 1, Len(got))
         /\ listing[1].done => got = all

\* The order of the index: by depth, then by parent, shorter first, then by
\* name.
KeyOrder(a, b) ==
    IF a.depth # b.depth THEN IntCmp(a.depth, b.depth)
    ELSE IF Len(a.parent) # Len(b.parent) THEN IntCmp(Len(a.parent), Len(b.parent))
    ELSE IF a.parent # b.parent THEN StrCmp(a.parent, b.parent)
    ELSE StrCmp(a.name, b.name)

SamePath(a, b) == a.parent = b.parent /\ a.name = b.name

\* C8 as stated: after process returns, the inode sequence is strictly
\* sorted by (depth, |parent|, parent, name) and no two inodes share the
\* same (parent, name).
C8_StrictlySorted ==
    Mounted =>
      \A i, j \in 1..Len(Inodes) :
        i < j => KeyOrder(Inodes[i], Inodes[j]) < 0 /\ ~SamePath(Inodes[i], Inodes[j])

\* The indexer emitted two entries with the same (parent, name): the
\* archive names a path twice.
PathTwice ==
    \E i, j \in 3..Len(index.inodes) :
      i < j /\ SamePath(index.inodes[i], index.inodes[j])

\* C8 as amended: after process returns, the inode sequence is sorted in
\* non-decreasing order by (depth, |parent|, parent, name); positions 0 and 1
\* hold the two equal root entries; from position 1 on the order is strict
\* and no two inodes share (parent, name), unless the archive names a path
\* twice.
C8_SortedAfterRoots ==
    Mounted =>
      /\ \A i, j \in 1..Len(Inodes) : i < j => KeyOrder(Inodes[i], Inodes[j]) <= 0
      /\ SamePath(Inodes[1], RootInode) /\ SamePath(Inodes[2], RootInode)
      /\ ~PathTwice =>
           \A i, j \in 2..Len(Inodes) :
             i < j => /\ KeyOrder(Inodes[i], Inodes[j]) < 0
                      /\ ~SamePath(Inodes[i], Inodes[j])

\* An archive of two directories and three files, no path twice, has been
\* mounted: the sort had to move entries.
C8_Witness ==
    /\ Mounted /\ ~PathTwice
    /\ Len(Inodes) = 7
    /\ [k \in 1..7 |-> Inodes[k].name] # [k \in 1..7 |-> index.inodes[k].name]

\* The path of a directory inode as its children name it in parent.
DirPath(dir) ==
    IF dir.parent = <<>> THEN <<Ch.slash>> ELSE dir.parent \o dir.name \o <<Ch.slash>>

\* The inode numbers of the slice a directory records.
ChildSlice(dir) == dir.child_inode..(dir.child_inode + dir.num_children - 1)

\* The slice of inode number d holds exactly the direct children.
ExactChildren(d) ==
    LET dir == Inodes[d + 1]
    IN /\ \A k \in ChildSlice(dir) :
            k < Len(Inodes) /\ Inodes[k + 1].parent = DirPath(dir)
       /\ \A k \in 0..(Len(Inodes) - 1) :
            Inodes[k + 1].parent = DirPath(dir) => k \in ChildSlice(dir)

\* C9 as stated: after process returns, for every directory inode D the
\* slice inodes[D.child_inode .. D.child_inode + D.num_children) contains
\* exactly the direct children of D.
C9_ChildSliceExact ==
    Mounted =>
      \A d \in 0..(Len(Inodes) - 1) :
        Inodes[d + 1].typeflag = "Directory" => ExactChildren(d)

\* C9 as amended: the same for every directory inode at a position >= 1
\* (position 0 is the spare copy of the root, which records no children)
\* whose (parent, name) no other inode at a position >= 1 shares.
C9_ChildSliceOfDirectories ==
    Mounted =>
      \A d \in 1..(Len(Inodes) - 1) :
        (/\ Inodes[d + 1].typeflag = "Directory"
         /\ \A k \in 1..(Len(Inodes) - 1) :
              k # d => ~SamePath(Inodes[k + 1], Inodes[d + 1]))
        => ExactChildren(d)

\* A directory below the root with two children has been mounted.
C9_Witness ==
    /\ Mounted
    /\ \E d \in 2..(Len(Inodes) - 1) :
         /\ Inodes[d + 1].typeflag = "Directory"
         /\ Inodes[d + 1].num_children = 2
         /\ ExactChildren(d)

\* The path a hard link names, with the leading '/' of the index.
LinkPath(inode) ==
    LET link == inode.extra[1].link
    IN IF StartsWithSlash(link) THEN link ELSE <<Ch.slash>> \o link

\* The inode numbers of the entries at a path; the root for "/".
AtPath(path) ==
    IF path = <<Ch.slash>> THEN {1}
    ELSE {k \in 2..(Len(Inodes) - 1) :
            Inodes[k + 1].parent \o Inodes[k + 1].name = path}

\* The inodes that are not hard links at the end of the chain of links
\* that starts at inode number h, followed for at most n links.
RECURSIVE ChainEnds(_, _)
ChainEnds(h, n) ==
    LET inode == Inodes[h + 1]
    IN IF inode.typeflag # "HardLink" THEN {h}
       ELSE IF inode.extra = <<>> \/ n = 0 THEN {}
       ELSE UNION {ChainEnds(k, n - 1) : k \in AtPath(LinkPath(inode))}

\* The attributes the file system reports for inode number t.
Attributes(t) ==
    LET inode == Inodes[t + 1]
        size == CASE inode.typeflag = "Directory" -> PAGE_SIZE
                  [] inode.typeflag = "SymLink" ->
                       IF inode.extra = <<>> THEN 0 ELSE Len(inode.extra[1].link)
                  [] OTHER -> inode.size
    IN [ino |-> t, size |-> size, nlink |-> inode.links, perm |-> inode.mode,
        uid |-> inode.uid, gid |-> inode.gid, mtime |-> inode.mtime,
        kind |-> CASE inode.typeflag = "Directory" -> "Directory"
                   [] inode.typeflag = "SymLink" -> "Symlink"
                   [] OTHER -> "RegularFile"]

\* The fields of a reply's attributes that Attributes names.
Reported(attr) ==
    [ino |-> attr.ino, size |-> attr.size, nlink |-> attr.nlink,
     perm |-> attr.perm, uid |-> attr.uid, gid |-> attr.gid,
     mtime |-> attr.mtime, kind |-> attr.kind]

\* C10: for every HardLink inode H whose link chain resolves to an inode T
\* that is not a hard link, lookup(parent of H, name of H) reports T's inode
\* number and T's attributes, and that number is the target_ino process
\* stored on H.
C10_LookupReportsTarget ==
    IsReplyTo("lookup") =>
      LET r == reply[1].req
      IN \A h \in 2..(Len(Inodes) - 1) :
           (/\ Inodes[h + 1].typeflag = "HardLink"
            /\ r.parent < Len(Inodes)
            /\ h \in ChildSlice(Inodes[r.parent + 1])
            /\ Inodes[h + 1].name = r.name)
           => \A t \in ChainEnds(h, Len(Inodes)) :
                /\ reply[1].kind = "entry"
                /\ Reported(reply[1].attr) = Attributes(t)
                /\ Inodes[h + 1].target_ino = t

\* The hard links whose chain of links ends at inode number t.
LinksTo(t) ==
    {h \in 2..(Len(Inodes) - 1) :
       Inodes[h + 1].typeflag = "HardLink" /\ t \in ChainEnds(h, Len(Inodes))}

\* C11: after process returns, every inode T that hard links resolve to has
\* links = 1 + the number of HardLink inodes that resolve to T, wherever the
\* links and T sort.
C11_LinkCount ==
    Mounted =>
      \A t \in 2..(Len(Inodes) - 1) :
        (Inodes[t + 1].typeflag # "HardLink" /\ LinksTo(t) # {})
        => Inodes[t + 1].links = 1 + Cardinality(LinksTo(t))

\* The index as process sorts it, before the file system is mounted.
Loaded == SortInodes(indexFile[1].inodes)

\* C12: get_hard_link_target returns for every index and every valid ino (0
\* when a link of the chain is dangling or the chain is cyclic), so process,
\* lookup and getattr never hang.
C12_HardLinkTargetTerminates ==
    /\ pc \notin {"mount_hang", "hung"}
    /\ indexFile # <<>> =>
         \A ino \in 0..(Len(Loaded) - 1) :
           NoReturn \notin get_hard_link_target(Loaded, ino)

\* C13 as stated: process applied to an index that process has prepared
\* succeeds and leaves the inode order and every inode's child_inode,
\* num_children, links and target_ino as they were.
C13_ProcessIdempotent ==
    Mounted => \A r \in process(Inodes) : r.kind = "ok" /\ r.inodes = Inodes

\* An inode that is not a child of the root.
BelowRootChildren ==
    \E k \in 2..(Len(Inodes) - 1) : Inodes[k + 1].parent # <<Ch.slash>>

\* C13 as amended: process applied to an index that process has prepared
\* panics at the assertion on child_inode when an inode is not a child of
\* the root; otherwise it succeeds and leaves the inode order and every
\* inode's child_inode, links and target_ino as they were, and num_children
\* too except the root's, to which it adds the number of the root's children.
\* (Where the archive names a path twice the binary search of the model may
\* land on either entry: the panic is then the outcome in which it lands
\* where it did at the first application.)
C13_ProcessAgain ==
    Mounted =>
      IF BelowRootChildren
      THEN /\ \E r \in process(Inodes) : r.kind = "panic"
           /\ ~PathTwice => \A r \in process(Inodes) : r.kind = "panic"
      ELSE \A r \in process(Inodes) :
             /\ r.kind = "ok"
             /\ r.inodes = [Inodes EXCEPT ![2].num_children = 2 * @]

\* An index with a file in the root and a hard link to it has been mounted:
\* the second application succeeds and counts the links again.
C13_Witness ==
    /\ Mounted /\ ~BelowRootChildren
    /\ \E t \in 2..(Len(Inodes) - 1) :
         Inodes[t + 1].typeflag = "RegularFile" /\ Inodes[t + 1].links = 2

\* The snapshots taken for the regular file of record k with content size
\* size: the positions in the snapshot sequence of the states saved from
\* the first content byte of the record to the end of its padded content.
SnapshotsFor(k, size) ==
    {q \in 1..Len(index.hasher.states) :
       /\ Len(index.hasher.states[q]) >= ContentStart(k)
       /\ Len(index.hasher.states[q])
            <= ContentStart(k) + RoundUp(size, TAR_BLOCK)}

\* C14: for every regular file of content size s the indexer takes exactly
\* ceil(s / PAGE_SIZE) + 1 snapshots: the one before the first content byte,
\* recorded as hash_index, one after each whole page, and one after the
\* final partial page if there is one.
C14_SnapshotCount ==
    \A j \in 1..Len(RegInodes) :
      LET file == index.inodes[RegInodes[j]]
          taken == SnapshotsFor(RegRecs[j], file.size)
      IN /\ Cardinality(taken) = CeilDiv(file.size, PAGE_SIZE) + 1
         /\ taken = (file.hash_index + 1)
                      ..(file.hash_index + 1 + CeilDiv(file.size, PAGE_SIZE))
         /\ \A q \in taken :
              Len(index.hasher.states[q])
                = ContentStart(RegRecs[j])
                  + Min((q - file.hash_index - 1) * PAGE_SIZE,
                        RoundUp(file.size, TAR_BLOCK))

\* A file of one whole page and a partial one has been indexed.
C14_Witness ==
    /\ pc = "indexed"
    /\ \E n \in 1..Len(index.inodes) :
         /\ index.inodes[n].typeflag = "RegularFile"
         /\ index.inodes[n].size > PAGE_SIZE
         /\ index.inodes[n].size % PAGE_SIZE # 0
         /\ Len(index.hasher.states) = 3

\* The inode number a request carries: the parent of a lookup, the ino of
\* the other operations.
NumberOf(req) == IF req.op = "lookup" THEN req.parent ELSE req.ino

\* C15: every server operation that takes an inode number replies ENOENT,
\* and does not abort, when the number is not a valid index into the inode
\* sequence (for lookup: with a name within the length limit, which is
\* tested first).
C15_InvalidInodeIsENOENT ==
    (Mounted /\ reply # <<>>) =>
      ((/\ NumberOf(reply[1].req) >= Len(Inodes)
        /\ ~(reply[1].req.op = "lookup" /\ NameTooLong(reply[1].req.name)))
       => (reply[1].kind = "error" /\ reply[1].errno = "ENOENT"))

\* C16: lookup replies ENAMETOOLONG exactly when the name is longer than
\* MAX_NAME_LENGTH bytes, whatever the parent is.
C16_NameTooLong ==
    (Mounted /\ reply # <<>> /\ reply[1].req.op = "lookup") =>
      ((reply[1].kind = "error" /\ reply[1].errno = "ENAMETOOLONG")
       <=> Len(reply[1].req.name) > MAX_NAME_LENGTH)

\* A lookup of a name one byte over the limit under a parent that is no
\* inode has been rejected for the length of the name.
C16_Witness ==
    /\ Mounted /\ reply # <<>> /\ reply[1].req.op = "lookup"
    /\ Len(reply[1].req.name) = MAX_NAME_LENGTH + 1
    /\ reply[1].req.parent >= Len(Inodes)
    /\ reply[1].kind = "error" /\ reply[1].errno = "ENAMETOOLONG"

\* The step is a call of measure, recorded in reply'.
MeasureCalled ==
    /\ pc = "hashing" /\ reply' # <<>> /\ reply'[1].req.op = "measure"
    /\ <<index, reply>>' # <<index, reply>>

\* C17 as stated: measure(buf) fails whenever |buf| is not a positive
\* multiple of HASH_BLOCK, the empty buffer included, and a failed measure
\* leaves the state, the byte count and the snapshots unchanged; a
\* successful measure adds |buf| to the byte count.
C17_MeasureRejectsEmpty ==
    [][MeasureCalled =>
         IF Len(reply'[1].req.buf) = 0
            \/ Len(reply'[1].req.buf) % HASH_BLOCK # 0
         THEN reply'[1].kind = "error" /\ index' = index
         ELSE /\ reply'[1].kind = "ok"
              /\ index'.hasher.len
                   = index.hasher.len + Len(reply'[1].req.buf)]_vars

\* C17 as amended: measure(buf) fails whenever |buf| is not a multiple of
\* HASH_BLOCK, and a failed measure leaves the state, the byte count and the
\* snapshots unchanged; a successful measure adds |buf| to the byte count;
\* the empty buffer is measured successfully and changes nothing.
C17_MeasureRejects ==
    [][MeasureCalled =>
         IF Len(reply'[1].req.buf) % HASH_BLOCK # 0
         THEN reply'[1].kind = "error" /\ index' = index
         ELSE /\ reply'[1].kind = "ok"
              /\ index'.hasher.len
                   = index.hasher.len + Len(reply'[1].req.buf)
              /\ index'.hasher.states = index.hasher.states
              /\ reply'[1].req.buf = <<>> => index' = index]_vars

\* A hasher that has measured bytes and saved a state has been handed a
\* buffer of odd length and has refused it.
C17_Witness ==
    /\ pc = "hashing" /\ reply # <<>> /\ reply[1].req.op = "measure"
    /\ Len(reply[1].req.buf) % HASH_BLOCK # 0
    /\ reply[1].kind = "error"
    /\ index.hasher.len > 0 /\ index.hasher.states # <<>>

\* The step is an open that succeeded.
Opened == reply = <<>> /\ reply' # <<>> /\ reply'[1].kind = "opened"

\* C18: the handle counter starts at 1 when the file system is mounted; a
\* successful open receives the value of the counter and adds 1 to it, and
\* no other step, a failed open included, changes it: the k-th successful
\* open receives handle k and no two opens receive the same handle.
C18_HandlesCountUp ==
    [][/\ (fs = <<>> /\ fs' # <<>>) => fs'[1].next_file_handle = 1
       /\ fs # <<>> =>
            IF Opened
            THEN /\ reply'[1].fh = fs[1].next_file_handle
                 /\ fs'[1].next_file_handle = fs[1].next_file_handle + 1
            ELSE fs'[1].next_file_handle = fs[1].next_file_handle]_vars

\* The second successful open has received handle 2.
C18_Witness ==
    /\ Mounted /\ reply # <<>> /\ reply[1].kind = "opened"
    /\ reply[1].fh = 2 /\ fs[1].next_file_handle = 3

\* C19: the index command run with a digest that differs from the computed
\* one has failed with an error that carries the computed and the supplied
\* value and has written no index file; run with the computed digest, or
\* with none, it has written the index file.
C19_DigestChecked ==
    (cli # <<>> /\ cli[1].command = "index") =>
      IF cli[1].digest # <<>> /\ cli[1].digest[1] # index.hasher.digest
      THEN /\ pc = "index_failed"
           /\ indexErr # <<>>
           /\ indexErr[1].computed = index.hasher.digest
           /\ indexErr[1].supplied = cli[1].digest[1]
           /\ indexFile = <<>>
      ELSE pc = "indexed" /\ indexFile = <<index>>

\* The index command has been run with a digest that is not the computed
\* one.
C19_Witness ==
    /\ cli # <<>> /\ cli[1].command = "index"
    /\ cli[1].digest # <<>> /\ cli[1].digest[1] # index.hasher.digest
    /\ pc = "index_failed"

\* C20: once the file system is mounted no step changes the index it
\* serves (the inode sequence and the hasher's snapshots, byte count and
\* digest), whether the operation succeeds or fails; next_file_handle is the
\* only server state that changes, and only on the reply to an open.
C20_IndexNeverMutated ==
    [][Mounted =>
         /\ fs' # <<>>
         /\ fs'[1].index = fs[1].index
         /\ fs'[1].next_file_handle # fs[1].next_file_handle
              => (reply' # <<>> /\ reply'[1].req.op = "open")]_vars

\* After an open, a read has been answered with data.
C20_Witness ==
    /\ Mounted /\ fs[1].next_file_handle > 1
    /\ reply # <<>> /\ reply[1].req.op = "read" /\ reply[1].kind = "data"

\* C21: a Read addressed to the inode number of a hard link that resolves
\* to a regular file is answered with data, the content of the file, and
\* not as a read of an inode that is no regular file.
C21_ReadThroughHardLink ==
    IsReplyTo("read") =>
      LET r == reply[1].req
      IN (/\ r.ino < Len(Inodes)
          /\ Inodes[r.ino + 1].typeflag = "HardLink"
          /\ \E t \in ChainEnds(r.ino, Len(Inodes)) :
               Inodes[t + 1].typeflag = "RegularFile")
         => reply[1].kind = "data"

\* The field name of the first record of a PAX payload: the bytes between
\* the first space and the first '=' after it.
FirstPaxField(data) ==
    Slice(data, SkipNext(data, 0, Ch.space),
          SkipNext(data, SkipNext(data, 0, Ch.space), Ch.eq) - 1)

\* The header the loop has read is one the indexer does not support: a
\* typeflag that is none of '0', '1', '2', '5', 'x', 'L', 'K' and NUL, or a
\* PAX record with a field that is none of path, linkpath, uname, gname,
\* mtime, uid and gid.
UnsupportedHeader ==
    /\ pc = "loop" /\ HdrRead.ok
    /\ \/ CurHeader.typeflag \notin {TF.reg, TF.hard, TF.sym, TF.dir, TF.pax,
                                     TF.gnuL, TF.gnuK, TF.nul}
       \/ /\ CurHeader.typeflag = TF.pax
          /\ FirstPaxField(CurHeader.data)
               \notin {PaxField.path, PaxField.linkpath, PaxField.uname,
                       PaxField.gname, PaxField.mtime, PaxField.uid,
                       PaxField.gid}

FirstPaxValue(data) ==
    Slice(data, SkipNext(data, SkipNext(data, 0, Ch.space), Ch.eq),
          SkipNext(data, SkipNext(data, SkipNext(data, 0, Ch.space), Ch.eq),
                   Ch.nl) - 1)

IsItemRec(rec) == rec.typeflag \in {TF.reg, TF.hard, TF.sym, TF.dir}

\* The position in index.inodes of the inode made from record k, an item:
\* the two roots, then the items in stream order.
InodeOfRec(k) ==
    2 + Cardinality({j \in 1..k : IsItemRec(tar.recs[j])})

\* The inode holds what the extension record ext supplied.
Overrides(ext, inode) ==
    LET field == FirstPaxField(ext.data)
        value == FirstPaxValue(ext.data)
    IN CASE ext.typeflag = TF.gnuL ->
              <<inode.parent, inode.name>> = split_path(ext.data)
         [] ext.typeflag = TF.gnuK ->
              inode.extra # <<>> /\ inode.extra[1].link = ext.data
         [] field = PaxField.path ->
              <<inode.parent, inode.name>> = split_path(value)
         [] field = PaxField.uid -> inode.uid = ascii_octal_to_u64(value).n
         [] field = PaxField.gid -> inode.gid = ascii_octal_to_u64(value).n
         [] field = PaxField.mtime -> inode.mtime = ascii_decimal_to_u64(value).n
         [] field = PaxField.uname ->
              inode.extra # <<>> /\ inode.extra[1].uname = value
         [] field = PaxField.gname ->
              inode.extra # <<>> /\ inode.extra[1].gname = value
         [] field = PaxField.linkpath ->
              inode.extra # <<>> /\ inode.extra[1].link = value
         [] OTHER -> TRUE

\* C23: for every item that follows a PAX or GNU record, the path, link
\* target, uid, gid, mtime, uname or gname the record supplied is the value
\* stored in the inode, whatever the value (uid 0, gid 0 and mtime 0
\* included) and whatever the ustar header of the item holds.
C23_OverridesPreferred ==
    \A k \in 1..(Len(tar.recs) - 1) :
      (/\ tar.recs[k].typeflag \in {TF.pax, TF.gnuL, TF.gnuK}
       /\ IsItemRec(tar.recs[k + 1])
       /\ Len(index.inodes) >= InodeOfRec(k + 1))
      => Overrides(tar.recs[k], index.inodes[InodeOfRec(k + 1)])

\* Inode number t, a directory or a regular file, is the target of no hard
\* link.
PlainNonTarget(t) ==
    /\ Inodes[t + 1].typeflag \in {"Directory", "RegularFile"}
    /\ LinksTo(t) = {}

\* C24 as stated: after process returns, every directory that is not the
\* target of a hard link has links = 2 and every regular file that is not
\* the target of a hard link has links = 1.
C24_DefaultLinks ==
    Mounted =>
      \A t \in 0..(Len(Inodes) - 1) :
        PlainNonTarget(t)
        => Inodes[t + 1].links
             = (IF Inodes[t + 1].typeflag = "Directory" THEN 2 ELSE 1)

\* C24 as amended: after process returns, the root (both of its entries)
\* has links = 2 when it is the target of no hard link, and every other
\* directory and every regular file that is not the target of a hard link
\* has links = 1.
C24_RootTwoOthersOne ==
    Mounted =>
      \A t \in 0..(Len(Inodes) - 1) :
        PlainNonTarget(t) => Inodes[t + 1].links = (IF t <= 1 THEN 2 ELSE 1)

\* An index with a directory below the root that has a child has been
\* mounted.
C24_Witness ==
    /\ Mounted
    /\ \E t \in 2..(Len(Inodes) - 1) :
         /\ Inodes[t + 1].typeflag = "Directory"
         /\ Inodes[t + 1].num_children > 0
         /\ PlainNonTarget(t)

\* An inode without the fields process writes.
Recorded(inode) ==
    [inode EXCEPT !.child_inode = 0, !.num_children = 0, !.links = 0,
                  !.target_ino = 0]

\* The number of inodes of a sequence whose recorded fields are those of x.
Copies(inodes, x) ==
    Cardinality({i \in 1..Len(inodes) : Recorded(inodes[i]) = Recorded(x)})

\* C25: process only permutes the inode sequence and only writes
\* child_inode, num_children, links and target_ino: the multiset of the
\* inodes restricted to the other fields, and the hasher with its snapshots
\* and digest, are the same in the index file and in the index served.
C25_ProcessPreserves ==
    Mounted =>
      /\ Len(Inodes) = Len(indexFile[1].inodes)
      /\ \A i \in 1..Len(Inodes) :
           Copies(Inodes, Inodes[i]) = Copies(indexFile[1].inodes, Inodes[i])
      /\ fs[1].index.hasher = indexFile[1].hasher

\* An index whose stream order is not its sorted order, with a hard link,
\* has been processed.
C25_Witness ==
    /\ Mounted
    /\ Inodes # indexFile[1].inodes
    /\ \E i \in 1..Len(Inodes) :
         Recorded(Inodes[i]) # Recorded(indexFile[1].inodes[i])
    /\ \E i \in 1..Len(Inodes) : Inodes[i].target_ino > 0

\* C26: on an archive that has not been changed, a Read of a regular file
\* at an offset below the size of the file is answered with data and every
\* page the server verifies passes: the server does not abort.
C26_ReadNeverAborts ==
    (/\ IsReplyTo("read")
     /\ disk = Archive
     /\ reply[1].req.ino < Len(Inodes)
     /\ Inodes[reply[1].req.ino + 1].typeflag = "RegularFile"
     /\ reply[1].req.offset < Inodes[reply[1].req.ino + 1].size)
    => (reply[1].kind = "data" /\ pc = "serving")

\* C27: GetAttr on the inode number of a hard link reports the number and
\* the attributes of the inode the link resolves to, which is what GetAttr
\* on that inode reports, and GetAttr on an inode that is no hard link
\* reports that inode's own number and attributes.
C27_GetAttrResolves ==
    (IsReplyTo("getattr") /\ reply[1].req.ino < Len(Inodes)) =>
      \A t \in ChainEnds(reply[1].req.ino, Len(Inodes)) :
        /\ reply[1].kind = "attr"
        /\ Reported(reply[1].attr) = Attributes(t)

\* The fields of an inode that a PAX or GNU record can supply.
Overridable(inode) ==
    [parent |-> inode.parent, name |-> inode.name, uid |-> inode.uid,
     gid |-> inode.gid, mtime |-> inode.mtime, extra |-> inode.extra]

\* No extension record since the last item stands before record k.
NoExtensionPending(k) ==
    \A j \in 1..(k - 1) :
      tar.recs[j].typeflag \in {TF.pax, TF.gnuL, TF.gnuK}
      => \E i \in (j + 1)..(k - 1) : IsItemRec(tar.recs[i])

\* The step appends the item whose header the loop has read.
ItemAppended ==
    /\ pc = "loop" /\ HdrRead.ok /\ IsItemRec(CurHeader)
    /\ Len(index'.inodes) = Len(index.inodes) + 1

\* C28: when an item has been appended to the index the staged Inode and
\* the staged Extra are back to their defaults, and an item with no
\* extension record between it and the item before it holds the values of
\* its own header: a PAX or GNU record reaches no item after the first that
\* follows it.
C28_ExtensionsReachNextItemOnly ==
    [][ItemAppended =>
         /\ parser'.inode = InodeDefault
         /\ parser'.extra = ExtraDefault
         /\ \A k \in 1..Len(tar.recs) :
              (HdrPos(tar.recs, k) = rd /\ NoExtensionPending(k))
              => Overridable(index'.inodes[Len(index'.inodes)])
                   = Overridable(parse_header(ParserNew, CurHeader).inode)]_vars

\* The second of two symlinks has been appended without the link target
\* and the path that a PAX and a GNU record supplied for the first.
C28_Witness ==
    /\ Len(tar.recs) > 3 /\ tar.recs[1].typeflag = TF.pax
    /\ tar.recs[2].typeflag = TF.gnuL
    /\ Len(index.inodes) = 4
    /\ index.inodes[3].extra # <<>> /\ index.inodes[3].name = PathG
    /\ index.inodes[4].extra = <<>> /\ index.inodes[4].name = PathH

\* C29: the loop of the indexer ends on every archive, headers with
\* typeflag NUL included: an iteration that stays in the loop has consumed
\* the TAR_BLOCK bytes of a header from the reader, the loop is left in the
\* end, and when it is left at the end of the archive finalize sets the
\* digest, which was not set before and is not set again.
C29_LoopTerminates ==
    /\ [][/\ (pc = "loop" /\ pc' = "loop") => rd' >= rd + TAR_BLOCK
          /\ (pc = "loop" /\ ~HdrRead.ok)
             => (index.hasher.digest = <<>> /\ index'.hasher.digest # <<>>)
          /\ index.hasher.digest # <<>> => index'.hasher = index.hasher]_vars
    /\ <>(pc \notin {"new", "loop"})

\* An archive with a zero block between two files has been indexed to its
\* end.
C29_Witness ==
    /\ pc = "indexed" /\ index.hasher.digest # <<>>
    /\ Len(index.inodes) = 4
    /\ \E k \in 2..(Len(tar.recs) - 1) :
         /\ tar.recs[k].typeflag = TF.nul
         /\ IsItemRec(tar.recs[k - 1]) /\ IsItemRec(tar.recs[k + 1])

\* C30: for every regular file of an archive of any length the recorded
\* inode.offset is the number of blocks of TAR_BLOCK bytes that precede the
\* first content byte of the file, and the byte offset Read computes for
\* every page of the file is the position of the page in the archive; the
\* running offset of the parser is the number of bytes it has consumed, and
\* no addition to a 32-bit counter overflows.
C30_OffsetsAreTrue ==
    /\ pc # "index_panic"
    /\ pc \in {"new", "loop", "indexed"} => parser.offset = rd
    /\ \A k \in 1..Len(tar.recs) :
         (tar.recs[k].typeflag = TF.reg /\ InodeOfRec(k) <= Len(index.inodes))
         => LET file == index.inodes[InodeOfRec(k)]
            IN /\ file.offset * TAR_BLOCK = ContentStart(k)
               /\ \A p \in 0..(CeilDiv(file.size, PAGE_SIZE) - 1) :
                    LET plan == ReadPlan(file, PAGE_SIZE * p, 1)
                    IN /\ ~plan.overflow
                       /\ plan.tar_offset = ContentStart(k) + PAGE_SIZE * p

\* The inode is the synthetic root: name "/", no parent, depth 0.
IsRoot(inode) ==
    inode.name = <<Ch.slash>> /\ inode.parent = <<>> /\ inode.depth = 0

\* C31: after process, positions 0 and 1 of the inode sequence both hold
\* the synthetic root, and the entries made from the archive are the
\* entries at the positions from 2 on.
C31_RootsFirst ==
    Mounted =>
      /\ Len(Inodes) >= 2 /\ IsRoot(Inodes[1]) /\ IsRoot(Inodes[2])
      /\ Len(Inodes) = Len(index.inodes)
      /\ \A k \in 3..Len(Inodes) :
           /\ ~IsRoot(Inodes[k])
           /\ \E j \in 3..Len(index.inodes) :
                Recorded(index.inodes[j]) = Recorded(Inodes[k])
           /\ \E j \in 3..Len(Inodes) :
                Recorded(Inodes[j]) = Recorded(index.inodes[k])

\* An archive whose stream order is not its sorted order has been
\* processed: the sort moved entries and left the roots in front.
C31_Witness ==
    /\ Mounted /\ Len(Inodes) = 7
    /\ \E k \in 3..7 : Recorded(Inodes[k]) # Recorded(index.inodes[k])

\* C32: after a successful process parents precede children: for every
\* inode number i >= 2 an inode at a number j with 1 <= j < i has the path
\* that inode i names as its parent, and the search readdir makes for `..`
\* in inodes[0..i) finds such an inode.
C32_ParentsPrecede ==
    Mounted =>
      \A i \in 2..(Len(Inodes) - 1) :
        LET parent == Inodes[i + 1].parent
            P == find(Inodes, parent, 0, i)
        IN /\ \E j \in 1..(i - 1) : path_eq(Inodes[j + 1], parent)
           /\ P # {}
           /\ \A p \in P : 1 <= p /\ p < i /\ path_eq(Inodes[p + 1], parent)

\* A directory below the root and a file in it have been processed, and a
\* listing of the directory has been answered.
C32_Witness ==
    /\ Mounted /\ IsReplyTo("readdir") /\ reply[1].kind = "dir"
    /\ reply[1].req.ino >= 2 /\ reply[1].req.offset = 0
    /\ \E i \in 3..(Len(Inodes) - 1) :
         Inodes[i + 1].parent = DirPath(Inodes[reply[1].req.ino + 1])

\* The lookup asks inode number d, reached by the lookups before it, for
\* the last component of the path of inode number i, which is not a hard
\* link.
NextComponent(d, name, i) ==
    /\ 1 <= d /\ d < Len(Inodes) /\ 2 <= i /\ i < Len(Inodes)
    /\ Inodes[d + 1].typeflag # "HardLink"
    /\ Inodes[i + 1].typeflag # "HardLink"
    /\ Inodes[i + 1].name = name
    /\ Inodes[i + 1].parent = DirPath(Inodes[d + 1])

\* C33: path resolution by lookup agrees with the index: a lookup of the
\* next component of the path of a non-HardLink inode i, in the inode the
\* path has led to so far, succeeds and answers inode number i, the inode
\* find returns for the path in the whole index; a directory on the way
\* that has a single child records num_children = 1.
C33_LookupAgreesWithIndex ==
    IsReplyTo("lookup") =>
      LET r == reply[1].req
      IN \A i \in 2..(Len(Inodes) - 1) :
           NextComponent(r.parent, r.name, i) =>
             /\ reply[1].kind = "entry"
             /\ reply[1].attr.ino = i
             /\ find(Inodes, Inodes[i + 1].parent \o r.name, 0, Len(Inodes)) = {i}
             /\ Cardinality({k \in 2..(Len(Inodes) - 1) :
                    Inodes[k + 1].parent = Inodes[i + 1].parent}) = 1
                => Inodes[r.parent + 1].num_children = 1

\* The paths find is asked for: the empty path, "/", the path of every
\* entry with and without a trailing '/', every parent, every name on its
\* own, and a path no entry has.
FindPaths ==
    {<<>>, <<Ch.slash>>, <<Ch.slash, Ch.z, Ch.z>>}
    \cup UNION {{Inodes[i].parent \o Inodes[i].name,
                 Inodes[i].parent \o Inodes[i].name \o <<Ch.slash>>,
                 Inodes[i].parent, Inodes[i].name} : i \in 3..Len(Inodes)}

\* The path with one trailing '/' removed.
StripSlash(path) ==
    IF EndsWithSlash(path) THEN SubSeq(path, 1, Len(path) - 1) ELSE path

\* Inode number k has the path.
HasPath(k, path) == Inodes[k + 1].parent \o Inodes[k + 1].name = StripSlash(path)

\* C34: on the sorted inode sequence find(path, lo, hi), for a slice
\* lo <= hi of the sequence, returns 1 for the empty path and for "/"
\* whatever lo and hi are; for any other path every
\* index k it returns has lo <= k < hi and inodes[k].parent followed by
\* inodes[k].name is the path with one trailing '/' removed, it returns
\* such an index when an entry of inodes[lo..hi) has the path, and
\* NotFound when none has.
C34_FindInSlice ==
    Mounted =>
      \A path \in FindPaths :
        \A lo \in 0..Len(Inodes) : \A hi \in lo..Len(Inodes) :
          LET R == find(Inodes, path, lo, hi)
              H == {k \in lo..(hi - 1) : k >= 2 /\ HasPath(k, path)}
          IN IF path = <<>> \/ path = <<Ch.slash>> THEN R = {1}
             ELSE /\ \A k \in R : lo <= k /\ k < hi /\ HasPath(k, path)
                  /\ H # {} => R # {}
                  /\ H = {} => R = {}

\* A directory with a file in it has been processed: find is asked for
\* the file with the slices that hold it and the slices that do not.
C34_Witness ==
    /\ Mounted /\ Len(Inodes) = 4
    /\ Inodes[4].parent = <<Ch.slash, Ch.a, Ch.slash>>
    /\ find(Inodes, Inodes[4].parent \o Inodes[4].name, 0, 4) = {3}
    /\ find(Inodes, Inodes[4].parent \o Inodes[4].name, 0, 3) = {}
    /\ find(Inodes, Inodes[4].parent, 1, 3) = {2}

\* The snapshot positions of a regular file inode: hash_index and one
\* position for each page of the file.
SnapshotRange(file) ==
    file.hash_index..(file.hash_index + CeilDiv(file.size, PAGE_SIZE))

C36_ReadLinkOrNotFound ==
    IsReplyTo("readlink") =>
      LET ino == reply[1].req.ino
      IN IF /\ ino < Len(Inodes)
            /\ Inodes[ino + 1].typeflag = "SymLink"
            /\ Inodes[ino + 1].extra # <<>>
            /\ Inodes[ino + 1].extra[1].link # <<>>
         THEN /\ reply[1].kind = "data"
              /\ reply[1].data = Inodes[ino + 1].extra[1].link
         ELSE reply[1].kind = "error" /\ reply[1].errno = "ENOENT"

\* The request asks for the attributes of inode number i, a symlink: a
\* getattr of i, or a lookup of its name in the directory that holds it.
AsksSymlinkAttr(i) ==
    /\ 2 <= i /\ i < Len(Inodes) /\ Inodes[i + 1].typeflag = "SymLink"
    /\ \/ IsReplyTo("getattr") /\ reply[1].req.ino = i
       \/ /\ IsReplyTo("lookup")
          /\ reply[1].req.parent < Len(Inodes)
          /\ i \in ChildSlice(Inodes[reply[1].req.parent + 1])
          /\ Inodes[i + 1].name = reply[1].req.name

\* C37: attribute reporting never aborts the server for a symlink: a
\* lookup or a getattr of a SymLink inode of an accepted archive either
\* finds the Extra present and reports the attributes, or replies with an
\* error.
C37_SymlinkAttrNeverAborts ==
    Mounted =>
      \A i \in 2..(Len(Inodes) - 1) :
        AsksSymlinkAttr(i) =>
          \/ Inodes[i + 1].extra # <<>> /\ reply[1].kind \in {"attr", "entry"}
          \/ reply[1].kind = "error"

\* An entry of the index file names as its parent a path that no entry
\* before it in sort order has.
Orphaned ==
    \E i \in 3..Len(Loaded) :
      \A j \in 2..(i - 1) : ~path_eq(Loaded[j], Loaded[i].parent)

\* C38: process returns an error when the parent path of some entry is
\* not the path of an entry that precedes it in sort order: the mount of
\* such an index fails, and no file system is served with the entry left
\* outside every child slice.
C38_OrphanIsAnError ==
    /\ (indexFile # <<>> /\ Orphaned) => (pc \in {"indexed", "mount_failed"} /\ fs = <<>>)
    /\ Mounted =>
         \A i \in 2..(Len(Inodes) - 1) :
           \E d \in 1..(i - 1) : i \in ChildSlice(Inodes[d + 1])

\* The mount of an archive that holds a/b and no a/ has failed.
C38_Witness ==
    /\ pc = "mount_failed" /\ Orphaned
    /\ Len(index.inodes) = 3
    /\ index.inodes[3].parent = <<Ch.slash, Ch.a, Ch.slash>>

=============================================================================
